---- MODULE Spec2Model ----
(***************************************************************************)
(* State machine of the smart-contract agent's protocol handlers:          *)
(* contract offer / amendment / formation, asset definition /              *)
(* modification / creation, contract address change and enforcement        *)
(* orders (contract-wide freeze).  Request handlers validate a request     *)
(* against the stored state and broadcast a response; response handlers    *)
(* commit a broadcast response to the stored state.  Responses are         *)
(* delivered at least once: a committed response may be processed again.   *)
(*                                                                         *)
(* Further specifications over the same variables: ListenerSpec (the tx    *)
(* listener between the spy node and the handlers), InspectorSpec (message *)
(* classification and output parsing), AddressSpec (address text form),    *)
(* CodecSpec (asset payload serialization) and EnforcementSpec (thaw,      *)
(* confiscation and reconciliation orders).  The pure functions are        *)
(* applied to an input arg drawn at the start and leave their value in     *)
(* result.  MembershipSpec (membership assets with two responses not yet   *)
(* seen), TxRepoSpec (the tx-per-block repository and its mutex),          *)
(* WalletSpec (the wallet lock), SigHashSpec (the signature hash cache),   *)
(* SchedulerSpec (jobs scheduled at sync, before and after a restart) and  *)
(* ProposalSpec (amendments that name a vote result) use the goroutine,    *)
(* store and scheduler variables.  CountedSpec and CountedWireSpec (the     *)
(* two versions of the listener with counts of the calls per tx id),       *)
(* AppliedSpec (votes marked applied when a formation or a creation is     *)
(* committed), MutexSpec (the repository with reads and writes as separate *)
(* steps), ScriptSpec (push data and push number scripts) and OrderSpec    *)
(* (freeze, thaw, confiscation and reconciliation against the stored       *)
(* contract and holdings, with the cache of freeze txs) complete the list. *)
(***************************************************************************)
EXTENDS Integers, Sequences, FiniteSets, Bags, TLC

\* ------------------------------------------------------------------ bounds
MaxTime == 1          \* the clock v.Now runs over 0..MaxTime
MaxQty == 1           \* largest RestrictedQtyAssets / TokenQty in a request
MaxAssets == 2        \* asset codes AssetCodeFromContract(addr, 0..MaxAssets-1)
MaxResponses == 4     \* success responses broadcast in one behaviour
MaxRevision == 1      \* largest revision number named by a request
MaxInFlight == 1      \* broadcast responses not yet processed at any time
UintWidth == 8        \* unsigned quantities are modelled UintWidth bits wide
MaxTxs == 2           \* tx ids the node reports to the listener: 1..MaxTxs
MaxQueue == 2         \* longest pendingRequests / unsafeRequests / revertedTxs
MaxOutputs == 3       \* most outputs (TxOut) of an inspected transaction
MaxValue == 2         \* largest output value of an inspected transaction
ScriptHashLength == 2 \* bytes of a hash payload (scriptHashLength, scaled down)
MaxPKHs == 2          \* most public key hashes of a multi-PKH address
MaxTargets == 2       \* most target addresses / bitcoin dispersions of an order
MaxBalance == 2       \* largest asset balance and order quantity
MaxText == 2          \* longest string of an asset payload
MaxOrders == 3        \* orders answered in a behaviour of the order cases

\* --------------------------------------------------------------- constants
addressTypeMainPKH == 0
addressTypeMainSH == 5
addressTypeMainMultiPKH == 16
addressTypeMainRPH == 32
addressTypeTestPKH == 111
addressTypeTestSH == 196
addressTypeTestMultiPKH == 208
addressTypeTestRPH == 224

NoAddr == "none"                 \* the empty bitcoin.RawAddress
ContractAddress == "contract"    \* rk.Address, the address the agent controls
AdminAddr == "admin"
OperatorAddr == "oper"
MasterAddr == "master"
NewContractAddr == "moved"
Senders == {AdminAddr, OperatorAddr, "user", MasterAddr}

NoContract == [exists |-> FALSE]   \* contract.Retrieve returns ErrNotFound
NoFormation == [exists |-> FALSE]  \* no saved ContractFormation
NoAsset == [exists |-> FALSE]      \* asset.Retrieve returns ErrNotFound
NoResp == [kind |-> "None"]        \* the handler broadcast no success response
NoneRecent == [n |-> 0, again |-> FALSE]

\* Fields of a ContractFormation an amendment may name.  ContractRevision is
\* one of the fields applyContractAmendments prohibits.
AmendableFields == {"RestrictedQtyAssets"}
ProhibitedFields == {"ContractRevision"}
AssetFields == {"TokenQty"}
NoClass == "none"                           \* the payload is no Membership
AdminClasses == {"Owner", "Administrator"}  \* the classes of the admin member asset

AssetIdx == 0 .. (MaxAssets - 1)

VARIABLES
    now,        \* v.Now of the next handler call
    ct,         \* the stored state.Contract of ContractAddress, or NoContract
    cf,         \* the ContractFormation saved by SaveContractFormation
    assets,     \* asset code -> stored state.Asset or NoAsset
    holdings,   \* asset code -> address -> state.Holding
    responses,  \* success responses broadcast so far, in order
    committed,  \* responses[1..committed] have been processed once
    recent      \* the response the latest handler call processed: its index n
                \* (0 when the call handled a request) and whether the call
                \* before it processed the same response

VARIABLES
    pendingRequests,  \* Server.pendingRequests: txs announced, not yet safe
    unsafeRequests,   \* Server.unsafeRequests: txs marked unsafe
    revertedTxs,      \* Server.revertedTxs: tx ids reported reverted
    inSync,           \* Server.inSync
    applied,          \* tx ids whose state change is in the stored state
    seen,             \* tx id -> what the listener was told about it so far
    note              \* the latest listener call and whether it ran processTx

VARIABLES
    arg,        \* the input a function under study is applied to
    result      \* what the function returned

agentVars == <<now, ct, cf, assets, holdings, responses, committed, recent>>
listenerVars == <<pendingRequests, unsafeRequests, revertedTxs, inSync,
                  applied, seen, note>>
callVars == <<arg, result>>

VARIABLES
    store,      \* TxRepository.store: path -> the tx ids written there
    mutex,      \* TxRepository.mutex is locked
    KeyStore,   \* Wallet.KeyStore: the keys of the shared key store
    lock,       \* Wallet.lock of the wallet the goroutines call
    pc,         \* goroutine -> the call it is in and where
    votes,      \* the stored votes of the contracts
    transfers,  \* the stored pending transfers of the contracts
    jobs,       \* the jobs of the Scheduler
    emitted,    \* the responses the scheduled jobs broadcast
    TxCache     \* Enforcement.TxCache: tx id -> the freeze tx saved for a thaw

procVars == <<store, mutex, KeyStore, lock, pc, votes, transfers, jobs, emitted,
              TxCache>>

\* Goroutines that call the TxRepository or the Wallet
MaxGoroutines == 2
Goroutines == 1 .. MaxGoroutines

\* Block heights; -1 is the unconfirmed block
MaxHeight == 0
Heights == -1 .. MaxHeight

\* fmt.Sprintf("%08x", height) for a height below 16
HexDigits == <<"0", "1", "2", "3", "4", "5", "6", "7",
               "8", "9", "a", "b", "c", "d", "e", "f">>
Hex08(height) == "0000000" \o HexDigits[height + 1]

\* TxRepository.buildPath
buildPath(height) ==
    IF height = -1 THEN "txs/unconfirmed" ELSE "txs/" \o Hex08(height)

Paths == {buildPath(h) : h \in Heights}

\* What storage.Read gives for a path nothing was written to (ErrNotFound)
NotFound == [found |-> FALSE]

\* A goroutine that is in no call and holds no lock
IdleCall == [op |-> "none", at |-> "idle", holds |-> FALSE]

\* The unlocked sync.RWMutex
Unlocked == [writer |-> FALSE, readers |-> 0]

\* No repository file, no key, no stored vote or transfer, no job
\* A function from no key, and f with key k set to v (a Go map assignment)
EmptyMap == [k \in {} |-> 0]
Put(f, k, v) == [x \in DOMAIN f \union {k} |-> IF x = k THEN v ELSE f[x]]

ProcInit ==
    /\ store = [p \in Paths |-> NotFound]
    /\ mutex = FALSE
    /\ KeyStore = {}
    /\ lock = Unlocked
    /\ pc = [g \in Goroutines |-> IdleCall]
    /\ votes = {}
    /\ transfers = {}
    /\ jobs = EmptyBag
    /\ emitted = <<>>
    /\ TxCache = EmptyMap

vars == <<now, ct, cf, assets, holdings, responses, committed, recent,
          pendingRequests, unsafeRequests, revertedTxs, inSync, applied, seen,
          note, arg, result,
          store, mutex, KeyStore, lock, pc, votes, transfers, jobs, emitted,
          TxCache>>

\* ---------------------------------------------------------------- holdings
\* A holding: the finalized balance and the pending debits / deposits, each
\* keyed by the id of the tx that attached it.
ZeroHolding == [FinalizedBalance |-> 0, pending |-> {}]

RECURSIVE SumAmounts(_)
SumAmounts(S) ==
    IF S = {} THEN 0
    ELSE LET e == CHOOSE x \in S : TRUE IN e.amount + SumAmounts(S \ {e})

PendingDebits(h) == SumAmounts({e \in h.pending : e.code = "D"})

\* holdings.AddDebit: fails when finalized - pending debits < amount.
CanDebit(h, amount) == h.FinalizedBalance - PendingDebits(h) >= amount

AddDebit(h, txid, amount) ==
    [h EXCEPT !.pending = @ \cup {[txid |-> txid, code |-> "D", amount |-> amount]}]

\* holdings.AddDeposit
AddDeposit(h, txid, amount) ==
    [h EXCEPT !.pending = @ \cup {[txid |-> txid, code |-> "C", amount |-> amount]}]

\* holdings.FinalizeTx: the finalized balance becomes `balance`, and the
\* pending entry keyed by txid is dropped.
FinalizeTx(h, txid, balance) ==
    [FinalizedBalance |-> balance,
     pending |-> {e \in h.pending : e.txid # txid}]

\* The ids of a request tx and of the response tx answering it.  A request
\* that is answered by responses[n] has id <<"req", n>>.
RequestTxId(n) == <<"req", n>>
ResponseTxId(n) == <<"resp", n>>

\* ----------------------------------------------------------- handler results
Reject(code) == [out |-> code, resp |-> NoResp]       \* node.RespondReject
Failed == [out |-> "Error", resp |-> NoResp]          \* the handler returns an error
Success(resp) == [out |-> "Success", resp |-> resp]   \* node.RespondSuccess

\* contract.IsOperator answering yes for every address
IsOperatorAnyone(c, addr) == TRUE

\* contract.IsOperator: the administration or the operator address
IsOperator(c, addr) == addr = c.AdminAddress \/ addr = c.OperatorAddress

\* CanHaveMoreAssets with the comparison off by one
CanHaveMoreAssetsOffByOne(c) ==
    IF c.RestrictedQtyAssets = 0 THEN TRUE
    ELSE Len(c.AssetCodes) <= c.RestrictedQtyAssets

\* contract.CanHaveMoreAssets
CanHaveMoreAssets(c) ==
    IF c.RestrictedQtyAssets = 0 THEN TRUE
    ELSE Len(c.AssetCodes) < c.RestrictedQtyAssets

\* ------------------------------------------------------ request messages
\* itx.RejectCode: 0, or the code the message validation set.
RejectCodes == {"OK", "MsgMalformed"}

\* msg.RefTxID: empty, or the id of a tx that is offered as the vote result
NoTx == "none"
RefTxIDs == {NoTx, "result"}

ContractAmendments ==
    {[field |-> "RestrictedQtyAssets", value |-> q] : q \in 0 .. MaxQty}
    \cup {[field |-> "ContractRevision", value |-> 0]}

AssetAmendments ==
    {[field |-> "TokenQty", value |-> q] : q \in 0 .. MaxQty}
    \cup {[field |-> "AssetRevision", value |-> 0]}

\* The amendment lists of a request: none or one amendment.
AmendmentLists(S) == {<<>>} \cup {<<a>> : a \in S}

\* The requests the environment sends.  Each set holds the valid requests
\* over the small domains and one request of each rejected shape.
\* The permissions of a contract without a voting system: no amendment is
\* allowed by a proposal, and VotingSystemsAllowed of every field is empty.
NoVotingSystems == [fld \in AmendableFields \cup AssetFields |-> <<>>]

\* operator is the second input of an offer with ContractOperatorIncluded,
\* NoAddr for an offer without.  An admin identity certificate is written as
\* the administration and operator addresses the oracle signed it for.  The
\* offer without restriction and permission is the one without an operator,
\* the restricted offer without permission the one with a certificate.
OfferOperator(q, p) == IF q = 0 /\ p = {} THEN NoAddr ELSE OperatorAddr
OfferCertificates(q, p) ==
    IF q = MaxQty /\ p = {}
       THEN <<[admin |-> AdminAddr, operator |-> OperatorAddr]>> ELSE <<>>

OfferMsgs ==
    {[kind |-> "Offer", RejectCode |-> "OK", sender |-> AdminAddr,
      operator |-> OfferOperator(q, p), MasterAddress |-> MasterAddr,
      RestrictedQtyAssets |-> q, ContractExpiration |-> 0, permitted |-> p,
      proposalPermitted |-> {}, VotingSystemsAllowed |-> NoVotingSystems,
      AdminIdentityCertificates |-> OfferCertificates(q, p)] :
        q \in 0 .. MaxQty, p \in SUBSET AmendableFields}
    \cup {[kind |-> "Offer", RejectCode |-> c, sender |-> AdminAddr,
           operator |-> OperatorAddr, MasterAddress |-> MasterAddr,
           RestrictedQtyAssets |-> 0, ContractExpiration |-> 1, permitted |-> {},
           proposalPermitted |-> {}, VotingSystemsAllowed |-> NoVotingSystems,
           AdminIdentityCertificates |-> <<>>] :
             c \in RejectCodes}

\* sender is the first input of the request tx and cosigners are its further
\* inputs.  A change of the administration or of the operator is signed by
\* the operator and the administration and names the new administration and
\* then the new operator in the next inputs.  The requests of the last set
\* change the operator: signed by the administration alone they name "user"
\* in the second input and have one input more.
AmendmentMsgs ==
    {[kind |-> "Amendment", RejectCode |-> "OK", sender |-> OperatorAddr,
      ContractRevision |-> r, RefTxID |-> NoTx, Amendments |-> am,
      ChangeAdministrationAddress |-> FALSE, ChangeOperatorAddress |-> FALSE,
      cosigners |-> <<>>] :
        r \in 0 .. MaxRevision, am \in AmendmentLists(ContractAmendments)}
    \cup {[kind |-> "Amendment", RejectCode |-> c, sender |-> s,
           ContractRevision |-> 0, RefTxID |-> ref, Amendments |-> <<>>,
           ChangeAdministrationAddress |-> FALSE, ChangeOperatorAddress |-> FALSE,
           cosigners |-> <<>>] :
             c \in RejectCodes, s \in {AdminAddr, "user"}, ref \in RefTxIDs}
    \cup {[kind |-> "Amendment", RejectCode |-> "OK", sender |-> OperatorAddr,
           ContractRevision |-> r, RefTxID |-> NoTx, Amendments |-> <<>>,
           ChangeAdministrationAddress |-> TRUE, ChangeOperatorAddress |-> FALSE,
           cosigners |-> co] :
             r \in 0 .. MaxRevision,
             co \in {<<AdminAddr, "user">>, <<OperatorAddr, "user">>, <<AdminAddr>>}}
    \cup {[kind |-> "Amendment", RejectCode |-> "OK", sender |-> AdminAddr,
           ContractRevision |-> r, RefTxID |-> NoTx, Amendments |-> <<>>,
           ChangeAdministrationAddress |-> cc[1], ChangeOperatorAddress |-> TRUE,
           cosigners |-> cc[2]] :
             r \in 0 .. MaxRevision,
             cc \in {<<FALSE, <<"user", OperatorAddr>>>>,
                     <<TRUE, <<"user", OperatorAddr>>>>,
                     <<FALSE, <<>>>>}}

\* MembershipClass is the class of the payload of an asset of type MEM.
DefinitionMsgs ==
    {[kind |-> "Definition", RejectCode |-> "OK", sender |-> AdminAddr,
      TokenQty |-> q, permitted |-> p,
      proposalPermitted |-> {}, VotingSystemsAllowed |-> NoVotingSystems,
      AssetType |-> "COU", MembershipClass |-> NoClass] :
        q \in 1 .. MaxQty, p \in SUBSET AssetFields}
    \cup {[kind |-> "Definition", RejectCode |-> c, sender |-> OperatorAddr,
           TokenQty |-> 1, permitted |-> {},
           proposalPermitted |-> {}, VotingSystemsAllowed |-> NoVotingSystems,
           AssetType |-> "COU", MembershipClass |-> NoClass] : c \in RejectCodes}

ModificationMsgs ==
    {[kind |-> "Modification", RejectCode |-> "OK", sender |-> OperatorAddr,
      AssetCode |-> a, AssetRevision |-> r, RefTxID |-> NoTx, Amendments |-> am] :
        a \in AssetIdx, r \in 0 .. MaxRevision,
        am \in AmendmentLists(AssetAmendments)}
    \cup {[kind |-> "Modification", RejectCode |-> c, sender |-> s,
           AssetCode |-> 0, AssetRevision |-> 0, RefTxID |-> ref,
           Amendments |-> <<>>] :
             c \in RejectCodes, s \in {AdminAddr, "user"}, ref \in RefTxIDs}

\* An Order with ComplianceAction Freeze and a zero AssetCode: no target, the
\* contract address as the only target (a contract-wide freeze), or a holder.
OrderMsgs ==
    {[kind |-> "Order", sender |-> OperatorAddr, ComplianceAction |-> "F",
      TargetAddresses |-> tg, FreezePeriod |-> fp] :
        tg \in {<<>>, <<ContractAddress>>, <<"user">>}, fp \in 1 .. MaxTime}
    \cup {[kind |-> "Order", sender |-> "user", ComplianceAction |-> "F",
           TargetAddresses |-> <<ContractAddress>>, FreezePeriod |-> 1]}

AddressChangeMsgs ==
    {[kind |-> "AddressChange", RejectCode |-> "OK", sender |-> s,
      NewContractAddress |-> NewContractAddr, Outputs |-> o] :
        s \in {MasterAddr, AdminAddr},
        o \in {{ContractAddress}, {ContractAddress, NewContractAddr}}}
    \cup {[kind |-> "AddressChange", RejectCode |-> "MsgMalformed", sender |-> MasterAddr,
           NewContractAddress |-> NewContractAddr,
           Outputs |-> {ContractAddress, NewContractAddr}]}

\* --------------------------------------------------------- contract handlers
\* The formation an accepted offer m is answered with
OfferFormation(m) ==
    [kind |-> "Formation", request |-> "Offer",
     ContractRevision |-> 0,
     AdminAddress |-> m.sender, OperatorAddress |-> m.operator,
     MasterAddress |-> m.MasterAddress,
     RestrictedQtyAssets |-> m.RestrictedQtyAssets,
     ContractExpiration |-> m.ContractExpiration,
     permitted |-> m.permitted,
     proposalPermitted |-> m.proposalPermitted,
     VotingSystemsAllowed |-> m.VotingSystemsAllowed,
     AdminIdentityCertificates |-> m.AdminIdentityCertificates,
     ChangeAdministrationAddress |-> FALSE, ChangeOperatorAddress |-> FALSE,
     cosigners |-> <<>>]

\* OfferRequest without the check that the contract does not exist yet
OfferRequestUnchecked(c, t, m) ==
    IF m.RejectCode # "OK" THEN Reject(m.RejectCode)
    ELSE IF m.ContractExpiration # 0 /\ m.ContractExpiration < t
        THEN Reject("MsgMalformed")
    ELSE Success(OfferFormation(m))

\* Contract.OfferRequest
OfferRequest(c, t, m) ==
    IF m.RejectCode # "OK" THEN Reject(m.RejectCode)
    ELSE IF c.exists THEN Reject("ContractExists")
    ELSE IF m.ContractExpiration # 0 /\ m.ContractExpiration < t
        THEN Reject("MsgMalformed")
    ELSE Success(OfferFormation(m))

\* The initiator types of a proposal (vt.Type): 0 the administration, 1 a
\* holder, 2 an administrative matter.  The voting systems of a contract are
\* numbered from 0.
ProposalTypes == {0, 1, 2}

\* The permissions of the formation or asset creation f
\* (PermissionsFromBytes): the fields whose permission has Permitted set, the
\* pairs of a field and a proposal type whose flag (AdministrationProposal,
\* HolderProposal, AdministrativeMatter) is set, and for every field the
\* flags VotingSystemsAllowed, one per voting system of the contract.
Permissions(f) ==
    [permitted |-> f.permitted, proposalPermitted |-> f.proposalPermitted,
     VotingSystemsAllowed |-> f.VotingSystemsAllowed]

\* applyContractAmendments: applies the amendments in order to the formation
\* f; perm is the permissions read from f before the first amendment.  An
\* amendment allowed by a vote needs the flag of the proposal type and the
\* voting system of the vote, any other the Permitted flag.  It returns the
\* error ("" for none) and the amended formation.
RECURSIVE ApplyContractAmendmentsFrom(_, _, _, _, _, _)
ApplyContractAmendmentsFrom(f, perm, amendments, proposed, proposalType, votingSystem) ==
    IF amendments = <<>> THEN [err |-> "", cf |-> f]
    ELSE LET a == Head(amendments) IN
         IF a.field \in ProhibitedFields
            THEN [err |-> "ContractPermissions", cf |-> f]
         ELSE LET g == [f EXCEPT ![a.field] = a.value] IN
              IF proposed /\ proposalType \notin ProposalTypes
                 THEN [err |-> "Error", cf |-> g]
              ELSE IF proposed /\ <<a.field, proposalType>> \notin perm.proposalPermitted
                 THEN [err |-> "ContractPermissions", cf |-> g]
              ELSE IF proposed /\ votingSystem >= Len(perm.VotingSystemsAllowed[a.field])
                 THEN [err |-> "Error", cf |-> g]
              ELSE IF proposed /\ ~perm.VotingSystemsAllowed[a.field][votingSystem + 1]
                 THEN [err |-> "ContractPermissions", cf |-> g]
              ELSE IF ~proposed /\ a.field \notin perm.permitted
                 THEN [err |-> "ContractPermissions", cf |-> g]
              ELSE ApplyContractAmendmentsFrom(g, perm, Tail(amendments), proposed,
                                               proposalType, votingSystem)

applyContractAmendments(f, amendments, proposed, proposalType, votingSystem) ==
    ApplyContractAmendmentsFrom(f, Permissions(f), amendments, proposed,
                                proposalType, votingSystem)

\* validateContractAmendOracleSig: the signature of the certificate verifies
\* when the oracle signed it for the administration and operator addresses
\* of the formation f
validateContractAmendOracleSig(f, adminCert) ==
    adminCert.admin = f.AdminAddress /\ adminCert.operator = f.OperatorAddress

\* AmendedFormation without the bump of the revision
AmendedFormationNotBumped(f, c) ==
    [f EXCEPT !.request = "Amendment", !.ContractRevision = c.Revision]

\* The formation an accepted amendment is answered with: the amended
\* formation f with the revision of the stored contract c bumped.
AmendedFormation(f, c) ==
    [f EXCEPT !.request = "Amendment", !.ContractRevision = c.Revision + 1]

\* Whether the first two inputs of the request are the two operators of the
\* contract (the one input when the contract has no operator), as a change of
\* the administration or of the operator address requires
BothOperators(c, m) ==
    IF c.OperatorAddress # NoAddr
       THEN /\ Len(m.cosigners) >= 1
            /\ m.sender # m.cosigners[1]
            /\ IsOperator(c, m.sender)
            /\ IsOperator(c, m.cosigners[1])
       ELSE IsOperator(c, m.sender)

\* inputIndex: the place among the cosigners of the input that names the new
\* administration, the first after the inputs of the operators of the stored
\* contract c
NewAdminInput(c) == IF c.OperatorAddress # NoAddr THEN 2 ELSE 1

\* inputIndex where the new operator is read: the same place, or the next
\* when the request m changes the administration as well
NewOperatorInput(c, m) ==
    IF m.ChangeAdministrationAddress THEN NewAdminInput(c) + 1
    ELSE NewAdminInput(c)

\* The txs transactions.GetTx finds: an offer, the Results of votes 1 and 2
\* with the contract amendments that were proposed and the Result of vote 3
\* with an asset amendment.  No other tx id is stored.
StoredTxs ==
    [offer |-> [MsgProto |-> "Offer"],
     result1 |-> [MsgProto |-> "Result", VoteTxId |-> 1,
                  ProposedAmendments |->
                      <<[field |-> "RestrictedQtyAssets", value |-> 1]>>],
     result2 |-> [MsgProto |-> "Result", VoteTxId |-> 2,
                  ProposedAmendments |->
                      <<[field |-> "RestrictedQtyAssets", value |-> 1],
                        [field |-> "RestrictedQtyAssets", value |-> 0]>>],
     result3 |-> [MsgProto |-> "Result", VoteTxId |-> 3,
                  ProposedAmendments |->
                      <<[field |-> "TokenQty", value |-> 0]>>]]

\* vote.Retrieve: the vote of the contract with the vote tx id
RetrieveVote(vs, contract, voteTxId) ==
    IF \E v \in vs : v.contract = contract /\ v.VoteTxId = voteTxId
       THEN CHOOSE v \in vs : v.contract = contract /\ v.VoteTxId = voteTxId
       ELSE [found |-> FALSE]

\* The check of the proposal without the check of the result of the vote
CheckProposalAnyResult(vs, contract, m) ==
    IF m.RefTxID \notin DOMAIN StoredTxs THEN "MsgMalformed"
    ELSE LET voteResult == StoredTxs[m.RefTxID] IN
    IF voteResult.MsgProto # "Result" THEN "MsgMalformed"
    ELSE LET vt == RetrieveVote(vs, contract, voteResult.VoteTxId) IN
    IF ~vt.found THEN "VoteNotFound"
    ELSE IF vt.CompletedAt = 0 THEN "MsgMalformed"
    ELSE IF Len(vt.ProposedAmendments) = 0 THEN "MsgMalformed"
    ELSE IF vt.AssetCode # {} THEN "MsgMalformed"
    ELSE IF Len(voteResult.ProposedAmendments) # Len(m.Amendments)
        THEN "MsgMalformed"
    ELSE IF \E i \in DOMAIN m.Amendments :
                voteResult.ProposedAmendments[i] # m.Amendments[i]
        THEN "MsgMalformed"
    ELSE ""

\* Contract.AmendmentRequest, "Check proposal if there was one": the code of
\* the rejection, or "" when the vote result allows the amendments
CheckProposal(vs, contract, m) ==
    IF m.RefTxID \notin DOMAIN StoredTxs THEN "MsgMalformed"
    ELSE LET voteResult == StoredTxs[m.RefTxID] IN
    IF voteResult.MsgProto # "Result" THEN "MsgMalformed"
    ELSE LET vt == RetrieveVote(vs, contract, voteResult.VoteTxId) IN
    IF ~vt.found THEN "VoteNotFound"
    ELSE IF vt.CompletedAt = 0 THEN "MsgMalformed"
    ELSE IF vt.Result # "A" THEN "MsgMalformed"
    ELSE IF Len(vt.ProposedAmendments) = 0 THEN "MsgMalformed"
    ELSE IF vt.AssetCode # {} THEN "MsgMalformed"
    ELSE IF Len(voteResult.ProposedAmendments) # Len(m.Amendments)
        THEN "MsgMalformed"
    ELSE IF \E i \in DOMAIN m.Amendments :
                voteResult.ProposedAmendments[i] # m.Amendments[i]
        THEN "MsgMalformed"
    ELSE ""

\* Asset.ModificationRequest, "Check proposal if there was one": as the check
\* of the contract amendment, but the vote has to be for the asset of the
\* message
CheckAssetProposal(vs, contract, m) ==
    IF m.RefTxID \notin DOMAIN StoredTxs THEN "MsgMalformed"
    ELSE LET voteResult == StoredTxs[m.RefTxID] IN
    IF voteResult.MsgProto # "Result" THEN "MsgMalformed"
    ELSE LET vt == RetrieveVote(vs, contract, voteResult.VoteTxId) IN
    IF ~vt.found THEN "VoteNotFound"
    ELSE IF vt.CompletedAt = 0 THEN "MsgMalformed"
    ELSE IF vt.Result # "A" THEN "MsgMalformed"
    ELSE IF Len(vt.ProposedAmendments) = 0 THEN "MsgMalformed"
    ELSE IF vt.AssetCode = {} \/ vt.AssetCode # {m.AssetCode}
        THEN "MsgMalformed"
    ELSE IF Len(voteResult.ProposedAmendments) # Len(m.Amendments)
        THEN "MsgMalformed"
    ELSE IF \E i \in DOMAIN m.Amendments :
                voteResult.ProposedAmendments[i] # m.Amendments[i]
        THEN "MsgMalformed"
    ELSE ""

\* The vote a request that passed CheckProposal names: its Type and
\* VoteSystem are the proposal type and voting system of the amendments
ProposalVote(vs, contract, m) ==
    RetrieveVote(vs, contract, StoredTxs[m.RefTxID].VoteTxId)

\* Contract.AmendmentRequest.  A request that names a vote result is checked
\* against the stored votes of the contract.
AmendmentRequest(c, f, t, m) ==
    IF m.RejectCode # "OK" THEN Reject(m.RejectCode)
    ELSE IF ~c.exists THEN Failed
    ELSE IF c.MovedTo # NoAddr THEN Reject("ContractMoved")
    ELSE IF ~IsOperator(c, m.sender) THEN Reject("NotOperator")
    ELSE IF c.Revision # m.ContractRevision THEN Reject("ContractRevision")
    ELSE IF m.RefTxID # NoTx /\ CheckProposal(votes, ContractAddress, m) # ""
        THEN Reject(CheckProposal(votes, ContractAddress, m))
    ELSE IF f.RestrictedQtyAssets > 0 /\ f.RestrictedQtyAssets < Len(c.AssetCodes)
        THEN Reject("ContractAssetQtyReduction")
    ELSE IF /\ m.ChangeAdministrationAddress \/ m.ChangeOperatorAddress
            /\ ~BothOperators(c, m)
        THEN Reject("ContractBothOperatorsRequired")
    ELSE IF m.ChangeAdministrationAddress /\ Len(m.cosigners) < NewAdminInput(c)
        THEN Failed
    ELSE IF m.ChangeOperatorAddress /\ Len(m.cosigners) < NewOperatorInput(c, m)
        THEN Failed
    ELSE LET proposed == m.RefTxID # NoTx
             vt == IF proposed THEN ProposalVote(votes, ContractAddress, m)
                   ELSE [Type |-> 0, VoteSystem |-> 0]
             g == [f EXCEPT !.AdminAddress =
                       IF m.ChangeAdministrationAddress
                          THEN m.cosigners[NewAdminInput(c)] ELSE @,
                     !.OperatorAddress =
                       IF m.ChangeOperatorAddress
                          THEN m.cosigners[NewOperatorInput(c, m)] ELSE @,
                     !.ChangeAdministrationAddress = m.ChangeAdministrationAddress,
                     !.ChangeOperatorAddress = m.ChangeOperatorAddress,
                     !.cosigners = m.cosigners]
             r == applyContractAmendments(g, m.Amendments, proposed, vt.Type,
                                          vt.VoteSystem) IN
         IF r.err # "" THEN Reject("MsgMalformed")
         ELSE IF \E i \in DOMAIN r.cf.AdminIdentityCertificates :
                    ~validateContractAmendOracleSig(
                        r.cf, r.cf.AdminIdentityCertificates[i])
            THEN Reject("InvalidSignature")
         ELSE Success(AmendedFormation(r.cf, c))

\* contract.Create, from the NewContract the formation converts to
Create(msg, t) ==
    [exists |-> TRUE, Revision |-> 0,
     AdminAddress |-> msg.AdminAddress, OperatorAddress |-> msg.OperatorAddress,
     MasterAddress |-> msg.MasterAddress,
     RestrictedQtyAssets |-> msg.RestrictedQtyAssets,
     ContractExpiration |-> msg.ContractExpiration,
     FreezePeriod |-> 0, AssetCodes |-> <<>>, MovedTo |-> NoAddr,
     AdminMemberAsset |-> {},
     UpdatedAt |-> t]

\* The UpdateContract FormationResponse prepares from the formation msg and
\* the inputs of its request, for the stored contract c.  inputIndex is
\* computed from the operator address stored at the time of the call.  A
\* field that is not to be changed is written as the stored one; the
\* Timestamp follows the message's and is left out, as are the fields no
\* handler of the model reads.
UpdateContract(c, msg) ==
    [Revision |-> msg.ContractRevision,
     AdminAddress |-> IF msg.ChangeAdministrationAddress
                         THEN msg.cosigners[NewAdminInput(c)]
                         ELSE c.AdminAddress,
     OperatorAddress |-> IF msg.ChangeOperatorAddress
                            THEN msg.cosigners[NewOperatorInput(c, msg)]
                            ELSE c.OperatorAddress,
     ContractExpiration |-> msg.ContractExpiration,
     RestrictedQtyAssets |-> msg.RestrictedQtyAssets]

\* contract.Update: the fields of upd are stored and UpdatedAt is set to now
Update(c, upd, t) ==
    [c EXCEPT !.Revision = upd.Revision,
              !.AdminAddress = upd.AdminAddress,
              !.OperatorAddress = upd.OperatorAddress,
              !.ContractExpiration = upd.ContractExpiration,
              !.RestrictedQtyAssets = upd.RestrictedQtyAssets,
              !.UpdatedAt = t]

\* contract.AddAssetCode
AddAssetCode(c, code, t) ==
    [c EXCEPT !.AssetCodes = Append(@, code), !.UpdatedAt = t]

\* Contract.FormationResponse: the stored contract after the formation msg
\* is processed at time t, and whether the handler returned an error.
FormationResponse(c, t, msg) ==
    IF c.exists /\ c.MovedTo # NoAddr THEN [ct |-> c, out |-> "Error"]
    ELSE IF ~c.exists THEN
        IF msg.request # "Offer" THEN [ct |-> c, out |-> "Error"]
        ELSE [ct |-> Create(msg, t), out |-> "Done"]
    ELSE IF msg.ChangeAdministrationAddress /\ Len(msg.cosigners) < NewAdminInput(c)
        THEN [ct |-> c, out |-> "Error"]
    ELSE IF msg.ChangeOperatorAddress /\ Len(msg.cosigners) < NewOperatorInput(c, msg)
        THEN [ct |-> c, out |-> "Error"]
    ELSE [ct |-> Update(c, UpdateContract(c, msg), t), out |-> "Done"]

\* Contract.AddressChange without the check of the first input
AddressChangeFromAnyone(c, m) ==
    IF m.RejectCode # "OK" THEN [ct |-> c, out |-> m.RejectCode]
    ELSE IF ~c.exists THEN [ct |-> c, out |-> "Panic"]
    ELSE IF ~({ContractAddress, m.NewContractAddress} \subseteq m.Outputs)
        THEN [ct |-> c, out |-> "TxMalformed"]
    ELSE [ct |-> [c EXCEPT !.MovedTo = m.NewContractAddress], out |-> "Done"]

\* Contract.AddressChange.  A missing contract is tolerated by the retrieval
\* and then dereferenced (ct.MasterAddress).
AddressChange(c, m) ==
    IF m.RejectCode # "OK" THEN [ct |-> c, out |-> m.RejectCode]
    ELSE IF ~c.exists THEN [ct |-> c, out |-> "Panic"]
    ELSE IF m.sender # c.MasterAddress THEN [ct |-> c, out |-> "TxMalformed"]
    ELSE IF ~({ContractAddress, m.NewContractAddress} \subseteq m.Outputs)
        THEN [ct |-> c, out |-> "TxMalformed"]
    ELSE [ct |-> [c EXCEPT !.MovedTo = m.NewContractAddress], out |-> "Done"]

\* ------------------------------------------------------------ asset handlers
\* protocol.AssetCodeFromContract(rk.Address, index): one code per index
AssetCodeFromContract(index) == index

\* asset.Retrieve: the stored asset, or NoAsset for a code never created
RetrieveAsset(as, code) == IF code \in DOMAIN as THEN as[code] ELSE NoAsset

\* The creation an accepted definition m is answered with
DefinitionCreation(c, m) ==
    [kind |-> "Creation", request |-> "Definition",
     AssetCode |-> AssetCodeFromContract(Len(c.AssetCodes)),
     AssetIndex |-> Len(c.AssetCodes), AssetRevision |-> 0,
     TokenQty |-> m.TokenQty, permitted |-> m.permitted,
     proposalPermitted |-> m.proposalPermitted,
     VotingSystemsAllowed |-> m.VotingSystemsAllowed,
     AssetType |-> m.AssetType, MembershipClass |-> m.MembershipClass]

\* DefinitionRequest without the check of the admin member asset
DefinitionRequestAnyMember(c, as, t, m) ==
    IF m.RejectCode # "OK" THEN Reject(m.RejectCode)
    ELSE IF ~c.exists THEN Failed
    ELSE IF c.MovedTo # NoAddr THEN Reject("ContractMoved")
    ELSE IF c.FreezePeriod > t THEN Reject("ContractFrozen")
    ELSE IF c.ContractExpiration # 0 /\ c.ContractExpiration < t
        THEN Reject("ContractExpired")
    ELSE IF m.sender # c.AdminAddress THEN Reject("NotAdministration")
    ELSE LET assetCode == AssetCodeFromContract(Len(c.AssetCodes)) IN
         IF RetrieveAsset(as, assetCode).exists THEN Reject("AssetCodeExists")
         ELSE IF ~CanHaveMoreAssets(c) THEN Reject("ContractFixedQuantity")
         ELSE Success(DefinitionCreation(c, m))

\* Asset.DefinitionRequest
DefinitionRequest(c, as, t, m) ==
    IF m.RejectCode # "OK" THEN Reject(m.RejectCode)
    ELSE IF ~c.exists THEN Failed
    ELSE IF c.MovedTo # NoAddr THEN Reject("ContractMoved")
    ELSE IF c.FreezePeriod > t THEN Reject("ContractFrozen")
    ELSE IF c.ContractExpiration # 0 /\ c.ContractExpiration < t
        THEN Reject("ContractExpired")
    ELSE IF m.sender # c.AdminAddress THEN Reject("NotAdministration")
    ELSE LET assetCode == AssetCodeFromContract(Len(c.AssetCodes)) IN
         IF RetrieveAsset(as, assetCode).exists THEN Reject("AssetCodeExists")
         ELSE IF ~CanHaveMoreAssets(c) THEN Reject("ContractFixedQuantity")
         ELSE IF /\ m.AssetType = "MEM" /\ c.AdminMemberAsset # {}
                 /\ m.MembershipClass \in AdminClasses
            THEN Reject("ContractNotPermitted")
         ELSE Success(DefinitionCreation(c, m))

\* applyAssetAmendments: as applyContractAmendments, on an AssetCreation.
\* An error without a rejection code is answered with MsgMalformed.
RECURSIVE ApplyAssetAmendmentsFrom(_, _, _, _, _, _)
ApplyAssetAmendmentsFrom(ac, perm, amendments, proposed, proposalType, votingSystem) ==
    IF amendments = <<>> THEN [err |-> "", ac |-> ac]
    ELSE LET a == Head(amendments) IN
         IF a.field \notin AssetFields
            THEN [err |-> "AssetNotPermitted", ac |-> ac]
         ELSE LET g == [ac EXCEPT ![a.field] = a.value] IN
              IF proposed /\ proposalType \notin ProposalTypes
                 THEN [err |-> "MsgMalformed", ac |-> g]
              ELSE IF proposed /\ <<a.field, proposalType>> \notin perm.proposalPermitted
                 THEN [err |-> "AssetPermissions", ac |-> g]
              ELSE IF proposed /\ votingSystem >= Len(perm.VotingSystemsAllowed[a.field])
                 THEN [err |-> "MsgMalformed", ac |-> g]
              ELSE IF proposed /\ ~perm.VotingSystemsAllowed[a.field][votingSystem + 1]
                 THEN [err |-> "AssetPermissions", ac |-> g]
              ELSE IF ~proposed /\ a.field \notin perm.permitted
                 THEN [err |-> "AssetPermissions", ac |-> g]
              ELSE ApplyAssetAmendmentsFrom(g, perm, Tail(amendments), proposed,
                                            proposalType, votingSystem)

applyAssetAmendments(ac, amendments, proposed, proposalType, votingSystem) ==
    ApplyAssetAmendmentsFrom(ac, Permissions(ac), amendments, proposed,
                             proposalType, votingSystem)

\* Asset.ModificationRequest; h is the administration holding of the asset
\* and n the index the response will have.  The result carries the holding to
\* save when the token quantity changes.
ModificationRequest(c, as, h, t, n, m) ==
    IF m.RejectCode # "OK" THEN Reject(m.RejectCode)
    ELSE IF ~c.exists THEN Failed
    ELSE IF c.MovedTo # NoAddr THEN Reject("ContractMoved")
    ELSE IF ~IsOperator(c, m.sender) THEN Reject("NotOperator")
    ELSE IF ~RetrieveAsset(as, m.AssetCode).exists THEN Failed
    ELSE IF RetrieveAsset(as, m.AssetCode).Revision # m.AssetRevision
        THEN Reject("AssetRevision")
    ELSE IF m.RefTxID # NoTx /\ CheckAssetProposal(votes, ContractAddress, m) # ""
        THEN Reject(CheckAssetProposal(votes, ContractAddress, m))
    ELSE LET a == RetrieveAsset(as, m.AssetCode)
             proposed == m.RefTxID # NoTx
             vt == IF proposed THEN ProposalVote(votes, ContractAddress, m)
                   ELSE [Type |-> 0, VoteSystem |-> 0]
             ac0 == [kind |-> "Creation", request |-> "Modification",
                     AssetCode |-> m.AssetCode, AssetIndex |-> m.AssetCode,
                     AssetRevision |-> a.Revision + 1,
                     TokenQty |-> a.TokenQty, permitted |-> a.permitted,
                     proposalPermitted |-> a.proposalPermitted,
                     VotingSystemsAllowed |-> a.VotingSystemsAllowed,
                     AssetType |-> a.AssetType,
                     MembershipClass |-> a.MembershipClass]
             r == applyAssetAmendments(ac0, m.Amendments, proposed, vt.Type,
                                       vt.VoteSystem)
         IN
         IF r.err # "" THEN Reject(r.err)
         ELSE IF r.ac.TokenQty < a.TokenQty /\ ~CanDebit(h, a.TokenQty - r.ac.TokenQty)
            THEN Reject("InsufficientQuantity")
         ELSE [out |-> "Success", resp |-> r.ac,
               holding |->
                 IF r.ac.TokenQty < a.TokenQty
                    THEN AddDebit(h, RequestTxId(n), a.TokenQty - r.ac.TokenQty)
                 ELSE IF r.ac.TokenQty > a.TokenQty
                    THEN AddDeposit(h, RequestTxId(n), r.ac.TokenQty - a.TokenQty)
                 ELSE h]

\* Unsigned subtraction and addition as the fixed-width arithmetic does them
SubUint(x, y) == (x - y) % (2 ^ UintWidth)
AddUint(x, y) == (x + y) % (2 ^ UintWidth)

\* asset.Create, from the NewAsset the creation converts to
CreateAsset(msg, t) ==
    [exists |-> TRUE, Revision |-> 0,
     TokenQty |-> msg.TokenQty, permitted |-> msg.permitted,
     proposalPermitted |-> msg.proposalPermitted,
     VotingSystemsAllowed |-> msg.VotingSystemsAllowed,
     AssetType |-> msg.AssetType, MembershipClass |-> msg.MembershipClass]

\* The Revision an asset.Update with ua.Revision set stores.
UpdatedAssetRevision(a, revision) == revision

\* The finalized balance CreationResponse gives the administration holding
\* when the token quantity of the stored asset a differs from the message's.
AdjustedBalance(h, a, msg) ==
    IF msg.TokenQty > a.TokenQty
       THEN AddUint(h.FinalizedBalance, msg.TokenQty - a.TokenQty)
       ELSE SubUint(h.FinalizedBalance, a.TokenQty - msg.TokenQty)

\* Asset.CreationResponse: the stored contract, assets and holdings after the
\* creation msg, carried by responses[n], is processed at time t.
CreationResponse(c, as, hs, t, n, msg) ==
    IF ~c.exists \/ c.MovedTo # NoAddr
       THEN [ct |-> c, assets |-> as, holdings |-> hs, out |-> "Error"]
    ELSE LET code == msg.AssetCode
             a == as[code]
             h == hs[code][c.AdminAddress]
         IN
         IF ~a.exists THEN
            [ct |-> [AddAssetCode(c, code, t) EXCEPT !.AdminMemberAsset =
                        IF /\ msg.AssetType = "MEM"
                           /\ msg.MembershipClass \in AdminClasses
                           THEN {code} ELSE @],
             assets |-> [as EXCEPT ![code] = CreateAsset(msg, t)],
             holdings |-> [hs EXCEPT ![code][c.AdminAddress] =
                 FinalizeTx(AddDeposit(h, ResponseTxId(n), msg.TokenQty),
                            ResponseTxId(n), msg.TokenQty)],
             out |-> "Done"]
         ELSE
            [ct |-> IF msg.AssetType # "MEM" THEN c
                    ELSE IF /\ msg.MembershipClass \in AdminClasses
                            /\ c.AdminMemberAsset # {code}
                       THEN [c EXCEPT !.AdminMemberAsset = {code}, !.UpdatedAt = t]
                    ELSE IF /\ msg.MembershipClass \notin AdminClasses
                            /\ c.AdminMemberAsset = {code}
                       THEN [c EXCEPT !.AdminMemberAsset = {}, !.UpdatedAt = t]
                    ELSE c,
             assets |-> [as EXCEPT ![code] =
                 [a EXCEPT !.Revision = UpdatedAssetRevision(a, msg.AssetRevision),
                           !.permitted = msg.permitted,
                           !.proposalPermitted = msg.proposalPermitted,
                           !.VotingSystemsAllowed = msg.VotingSystemsAllowed,
                           !.TokenQty = msg.TokenQty,
                           !.MembershipClass = msg.MembershipClass]],
             holdings |->
                 IF a.TokenQty # msg.TokenQty
                    THEN [hs EXCEPT ![code][c.AdminAddress] =
                            FinalizeTx(h, ResponseTxId(n), AdjustedBalance(h, a, msg))]
                    ELSE hs,
             out |-> "Done"]

\* ------------------------------------------------------- enforcement handlers
\* Enforcement.OrderRequest with OrderFreezeRequest
OrderRequest(c, t, m) ==
    IF ~c.exists THEN Failed
    ELSE IF ~IsOperator(c, m.sender) THEN Reject("OperatorAddress")
    ELSE IF Len(m.TargetAddresses) = 0 THEN Reject("Malformed")
    ELSE LET full == Len(m.TargetAddresses) = 1
                     /\ m.TargetAddresses[1] = ContractAddress IN
         IF ~full THEN Reject("Malformed")
         ELSE Success([kind |-> "Freeze", request |-> "Order",
                       FreezePeriod |-> m.FreezePeriod, Timestamp |-> t])

\* Enforcement.FreezeResponse for a contract-wide freeze
FreezeResponse(c, msg) ==
    IF ~c.exists THEN [ct |-> c, out |-> "Error"]
    ELSE [ct |-> [c EXCEPT !.FreezePeriod = msg.FreezePeriod,
                           !.UpdatedAt = msg.Timestamp],
          out |-> "Done"]

\* ------------------------------------------------------------------ listener
\* The spynode listener of the Server: HandleTx, HandleTxState, HandleInSync.
TxIds == 1 .. MaxTxs
NoCall == [fn |-> "None"]
NoNote == [type |-> "None", txid |-> 0, processed |-> FALSE]

Range(s) == {s[i] : i \in DOMAIN s}

\* The sequence s without its element at index i
RemoveAt(s, i) == SubSeq(s, 1, i - 1) \o SubSeq(s, i + 1, Len(s))

\* The index of the first element of s equal to x (x is an element of s)
FirstIndex(s, x) == CHOOSE i \in DOMAIN s : s[i] = x /\ \A j \in 1 .. (i - 1) : s[j] # x

\* The sequence s without the first element equal to x
RemoveFirst(s, x) == IF x \in Range(s) THEN RemoveAt(s, FirstIndex(s, x)) ELSE s

\* Server.removeFromReverted: the first entry of the tx id is removed
removeFromReverted(reverted, txid) ==
    [found |-> txid \in Range(reverted), revertedTxs |-> RemoveFirst(reverted, txid)]

\* Server.processTx commits the state change of the tx (idempotent)
processTx(done, txid) == done \union {txid}

\* Server.revertTx rolls the committed state change of the tx back
revertTx(done, txid) == done \ {txid}

\* Server.cancelTx takes the revert path
cancelTx(done, txid) == done \ {txid}

\* The listener state as a record
ListenerState ==
    [pendingRequests |-> pendingRequests, unsafeRequests |-> unsafeRequests,
     revertedTxs |-> revertedTxs, inSync |-> inSync, applied |-> applied,
     processed |-> FALSE]

\* Server.HandleTx: the tx is appended to pendingRequests
HandleTx(s, txid) == [s EXCEPT !.pendingRequests = Append(@, txid)]

\* Server.HandleTxState with a safe notification that leaves the tx in
\* pendingRequests when it processes it
HandleTxStateKeepsPending(s, msgType, txid) ==
    CASE msgType = "Safe" ->
            IF removeFromReverted(s.revertedTxs, txid).found
               THEN [s EXCEPT !.revertedTxs = removeFromReverted(@, txid).revertedTxs]
            ELSE IF txid \in Range(s.pendingRequests)
               THEN [s EXCEPT !.applied = processTx(@, txid), !.processed = TRUE]
            ELSE s
      [] msgType = "Confirm" ->
            IF removeFromReverted(s.revertedTxs, txid).found
               THEN [s EXCEPT !.revertedTxs = removeFromReverted(@, txid).revertedTxs]
            ELSE IF txid \in Range(s.pendingRequests)
               THEN [s EXCEPT !.pendingRequests = RemoveFirst(@, txid),
                              !.applied = processTx(@, txid), !.processed = TRUE]
            ELSE IF txid \in Range(s.unsafeRequests)
               THEN [s EXCEPT !.unsafeRequests = RemoveFirst(@, txid),
                              !.applied = processTx(@, txid), !.processed = TRUE]
            ELSE s
      [] msgType = "Cancel" ->
            IF txid \in Range(s.pendingRequests)
               THEN [s EXCEPT !.pendingRequests = RemoveFirst(@, txid)]
               ELSE [s EXCEPT !.applied = cancelTx(@, txid)]
      [] msgType = "Unsafe" ->
            IF txid \in Range(s.pendingRequests)
               THEN [s EXCEPT !.unsafeRequests = Append(@, txid),
                              !.pendingRequests = RemoveFirst(@, txid)]
               ELSE s
      [] msgType = "Revert" ->
            [s EXCEPT !.revertedTxs = Append(@, txid)]

\* Server.HandleTxState
HandleTxState(s, msgType, txid) ==
    CASE msgType = "Safe" ->
            IF removeFromReverted(s.revertedTxs, txid).found
               THEN [s EXCEPT !.revertedTxs = removeFromReverted(@, txid).revertedTxs]
            ELSE IF txid \in Range(s.pendingRequests)
               THEN [s EXCEPT !.pendingRequests = RemoveFirst(@, txid),
                              !.applied = processTx(@, txid), !.processed = TRUE]
            ELSE s
      [] msgType = "Confirm" ->
            IF removeFromReverted(s.revertedTxs, txid).found
               THEN [s EXCEPT !.revertedTxs = removeFromReverted(@, txid).revertedTxs]
            ELSE IF txid \in Range(s.pendingRequests)
               THEN [s EXCEPT !.pendingRequests = RemoveFirst(@, txid),
                              !.applied = processTx(@, txid), !.processed = TRUE]
            ELSE IF txid \in Range(s.unsafeRequests)
               THEN [s EXCEPT !.unsafeRequests = RemoveFirst(@, txid),
                              !.applied = processTx(@, txid), !.processed = TRUE]
            ELSE s
      [] msgType = "Cancel" ->
            IF txid \in Range(s.pendingRequests)
               THEN [s EXCEPT !.pendingRequests = RemoveFirst(@, txid)]
               ELSE [s EXCEPT !.applied = cancelTx(@, txid)]
      [] msgType = "Unsafe" ->
            IF txid \in Range(s.pendingRequests)
               THEN [s EXCEPT !.unsafeRequests = Append(@, txid),
                              !.pendingRequests = RemoveFirst(@, txid)]
               ELSE s
      [] msgType = "Revert" ->
            [s EXCEPT !.revertedTxs = Append(@, txid)]

\* revertTx on every tx id of the list, in order
RECURSIVE RevertAll(_, _)
RevertAll(done, txids) ==
    IF txids = <<>> THEN done
    ELSE RevertAll(revertTx(done, Head(txids)), Tail(txids))

\* Server.HandleInSync
HandleInSync(s) ==
    IF s.inSync
       THEN [s EXCEPT !.applied = RevertAll(@, s.revertedTxs), !.revertedTxs = <<>>]
       ELSE [s EXCEPT !.inSync = TRUE]

\* What the listener has been told about tx id txid after a notification of
\* type msgType that led to listener state r: "new", "unsafe" (moved to
\* unsafeRequests), "processed", "reverted" (reported reverted after it was
\* processed), "again" (reported safe or confirmed after "reverted")
SeenAfter(before, s, r, msgType, txid) ==
    IF msgType \in {"Safe", "Confirm"} /\ before = "reverted" THEN "again"
    ELSE IF r.processed THEN "processed"
    ELSE IF msgType = "Unsafe" /\ txid \in Range(s.pendingRequests) /\ before = "new"
         THEN "unsafe"
    ELSE IF msgType = "Revert" /\ before \in {"processed", "again"} THEN "reverted"
    ELSE IF msgType = "Cancel" /\ txid \notin Range(s.pendingRequests) THEN "new"
    ELSE before

ListenerInit ==
    /\ pendingRequests = <<>>
    /\ unsafeRequests = <<>>
    /\ revertedTxs = <<>>
    /\ inSync = FALSE
    /\ applied = {}
    /\ seen = [t \in TxIds |-> "new"]
    /\ note = NoNote

\* The listener state becomes r
Listen(r) ==
    /\ pendingRequests' = r.pendingRequests
    /\ unsafeRequests' = r.unsafeRequests
    /\ revertedTxs' = r.revertedTxs
    /\ inSync' = r.inSync
    /\ applied' = r.applied
    /\ UNCHANGED <<agentVars, callVars, procVars>>

\* The node announces a tx
AnnounceTx(txid) ==
    /\ Len(pendingRequests) < MaxQueue
    /\ Listen(HandleTx(ListenerState, txid))
    /\ note' = [type |-> "Tx", txid |-> txid, processed |-> FALSE]
    /\ UNCHANGED seen

\* The node reports a state of a tx
NotifyTxState(msgType, txid) ==
    LET r == HandleTxState(ListenerState, msgType, txid) IN
    /\ Len(r.unsafeRequests) <= MaxQueue
    /\ Len(r.revertedTxs) <= MaxQueue
    /\ Listen(r)
    /\ note' = [type |-> msgType, txid |-> txid, processed |-> r.processed]
    /\ seen' = [seen EXCEPT ![txid] = SeenAfter(@, ListenerState, r, msgType, txid)]

\* The node reports that it is in sync
NotifyInSync ==
    /\ Listen(HandleInSync(ListenerState))
    /\ note' = [type |-> "InSync", txid |-> 0, processed |-> FALSE]
    /\ UNCHANGED seen

ListenerNext ==
    \/ \E t \in TxIds : AnnounceTx(t)
    \/ \E t \in TxIds : NotifyTxState("Safe", t)
    \/ \E t \in TxIds : NotifyTxState("Confirm", t)
    \/ \E t \in TxIds : NotifyTxState("Cancel", t)
    \/ \E t \in TxIds : NotifyTxState("Unsafe", t)
    \/ \E t \in TxIds : NotifyTxState("Revert", t)
    \/ NotifyInSync

\* ------------------------------------------------------------------ inspector
\* The action codes of the protocol that have a handler or a place in the
\* classification
ActionCodes ==
    {"ContractOffer", "ContractFormation", "ContractAmendment",
     "ContractAddressChange", "AssetDefinition", "AssetCreation",
     "AssetModification", "Transfer", "Settlement", "Proposal", "Vote",
     "BallotCast", "BallotCounted", "Result", "Order", "Freeze", "Thaw",
     "Confiscation", "Reconciliation", "Message", "Rejection",
     "StaticContractFormation"}
NoMsg == "nil"     \* itx.MsgProto of a tx with no tokenized message

\* inspector.incomingMessageTypes
incomingMessageTypes ==
    {"ContractOffer", "ContractAmendment", "AssetDefinition",
     "AssetModification", "Transfer", "Proposal", "BallotCast", "Order"}

\* inspector.outgoingMessageTypes
outgoingMessageTypes ==
    {"AssetCreation", "ContractFormation", "Settlement", "Vote",
     "BallotCounted", "Result", "Freeze", "Thaw", "Confiscation",
     "Reconciliation", "Rejection"}

\* Transaction.IsTokenized
IsTokenized(itx) == itx.MsgProto # NoMsg

\* Transaction.IsIncomingMessageType
IsIncomingMessageType(itx) ==
    IF ~IsTokenized(itx) THEN FALSE ELSE itx.MsgProto \in incomingMessageTypes

\* Transaction.IsOutgoingMessageType
IsOutgoingMessageType(itx) ==
    IF ~IsTokenized(itx) THEN FALSE ELSE itx.MsgProto \in outgoingMessageTypes

\* Locking scripts of an output: pay-to scripts of two addresses, a script of
\* no known template (an OP_RETURN) and a script the address parser fails on
PayToScripts == {"payto-a", "payto-b"}
PkScripts == PayToScripts \union {"opreturn", "malformed"}

\* bitcoin.AddressFromLockingScript: the address, ErrUnknownScriptTemplate or
\* another error
AddressFromLockingScript(script) ==
    IF script \in PayToScripts THEN [err |-> "nil", address |-> script]
    ELSE IF script = "opreturn" THEN [err |-> "ErrUnknownScriptTemplate"]
    ELSE [err |-> "error"]

\* inspector.NewUTXOFromHashWire: the index and the value of output n
NewUTXOFromHashWire(tx, n) == [Index |-> n, Value |-> tx.TxOut[n + 1].Value]

\* buildOutput that does not skip outputs of value zero
buildOutputKeepingZero(tx, n) ==
    LET txout == tx.TxOut[n + 1]
        a == AddressFromLockingScript(txout.PkScript) IN
    IF a.err = "ErrUnknownScriptTemplate" THEN [err |-> FALSE, skip |-> TRUE]
    ELSE IF a.err # "nil" THEN [err |-> TRUE, skip |-> TRUE]
    ELSE [err |-> FALSE, skip |-> FALSE,
          output |-> [Address |-> a.address,
                      Index |-> NewUTXOFromHashWire(tx, n).Index,
                      Value |-> NewUTXOFromHashWire(tx, n).Value]]

\* inspector.buildOutput for output n (from 0) of the tx
buildOutput(tx, n) ==
    LET txout == tx.TxOut[n + 1]
        a == AddressFromLockingScript(txout.PkScript) IN
    IF txout.Value = 0 THEN [err |-> FALSE, skip |-> TRUE]
    ELSE IF a.err = "ErrUnknownScriptTemplate" THEN [err |-> FALSE, skip |-> TRUE]
    ELSE IF a.err # "nil" THEN [err |-> TRUE, skip |-> TRUE]
    ELSE [err |-> FALSE, skip |-> FALSE,
          output |-> [Address |-> a.address,
                      Index |-> NewUTXOFromHashWire(tx, n).Index,
                      Value |-> NewUTXOFromHashWire(tx, n).Value]]

\* The loop of ParseOutputs from output n on, with the outputs kept so far
RECURSIVE ParseOutputsFrom(_, _, _)
ParseOutputsFrom(itx, n, outputs) ==
    IF n >= Len(itx.TxOut) THEN [err |-> FALSE, Outputs |-> outputs]
    ELSE LET b == buildOutput(itx, n) IN
         IF b.err THEN [err |-> TRUE, Outputs |-> itx.Outputs]
         ELSE IF b.skip THEN ParseOutputsFrom(itx, n + 1, outputs)
         ELSE ParseOutputsFrom(itx, n + 1, Append(outputs, b.output))

\* Transaction.ParseOutputs: whether it failed, and itx.Outputs afterwards
ParseOutputs(itx) == ParseOutputsFrom(itx, 0, <<>>)

\* The outputs of inspected transactions
TxOuts == [Value : 0 .. MaxValue, PkScript : PkScripts]
TxOutLists == UNION {[1 .. n -> TxOuts] : n \in 0 .. MaxOutputs}

\* The inspected transactions: every action code with no outputs, and every
\* list of outputs with and without a tokenized message
InspectorTxs ==
    {[MsgProto |-> c, TxOut |-> <<>>, Outputs |-> <<>>] :
        c \in ActionCodes \union {NoMsg}}
    \union {[MsgProto |-> c, TxOut |-> o, Outputs |-> <<>>] :
                c \in {NoMsg, "Transfer"}, o \in TxOutLists}

InspectorInit ==
    /\ now = 0
    /\ ct = NoContract
    /\ cf = NoFormation
    /\ assets = [a \in AssetIdx |-> NoAsset]
    /\ holdings = [a \in AssetIdx |-> [p \in Senders |-> ZeroHolding]]
    /\ responses = <<>>
    /\ committed = 0
    /\ recent = NoneRecent
    /\ ListenerInit
    /\ ProcInit
    /\ arg \in InspectorTxs
    /\ result = NoCall

\* The function fn returned value
Return(fn, value) ==
    /\ result' = [fn |-> fn, value |-> value]
    /\ UNCHANGED <<agentVars, listenerVars, arg, procVars>>

CallIsIncomingMessageType ==
    Return("IsIncomingMessageType", IsIncomingMessageType(arg))

CallIsOutgoingMessageType ==
    Return("IsOutgoingMessageType", IsOutgoingMessageType(arg))

CallParseOutputs == Return("ParseOutputs", ParseOutputs(arg))

InspectorNext ==
    \/ CallIsIncomingMessageType
    \/ CallIsOutgoingMessageType
    \/ CallParseOutputs

InspectorSpec == InspectorInit /\ [][InspectorNext]_vars

\* -------------------------------------------------------------------- address
\* Bytes are 0..255; a text is the sequence of its Base58 digits 0..57.
\* Long division of the big-endian number digits (base `base`) by d, from
\* digit i on, with quotient digits q and remainder rem so far
RECURSIVE LongDiv(_, _, _, _, _, _)
LongDiv(digits, base, d, i, q, rem) ==
    IF i > Len(digits) THEN [q |-> q, r |-> rem]
    ELSE LET cur == rem * base + digits[i] IN
         LongDiv(digits, base, d, i + 1, Append(q, cur \div d), cur % d)

\* The number of leading zero digits
RECURSIVE LeadingZeros(_)
LeadingZeros(digits) ==
    IF digits = <<>> \/ Head(digits) # 0 THEN 0 ELSE 1 + LeadingZeros(Tail(digits))

StripZeros(digits) == SubSeq(digits, LeadingZeros(digits) + 1, Len(digits))

\* The digits in base `to` of the number with the digits `digits` (no
\* leading zero) in base `from`
RECURSIVE ToBase(_, _, _)
ToBase(digits, from, to) ==
    IF digits = <<>> THEN <<>>
    ELSE LET d == LongDiv(digits, from, to, 1, <<>>, 0) IN
         Append(ToBase(StripZeros(d.q), from, to), d.r)

Zeros(n) == [i \in 1 .. n |-> 0]

\* bitcoin.Base58: a leading zero byte becomes the digit 0 ('1')
Base58(b) == Zeros(LeadingZeros(b)) \o ToBase(StripZeros(b), 256, 58)

\* bitcoin.Base58Decode
Base58Decode(text) == Zeros(LeadingZeros(text)) \o ToBase(StripZeros(text), 58, 256)

\* A weighted byte sum
RECURSIVE WeightedSum(_, _)
WeightedSum(b, k) ==
    IF b = <<>> THEN k
    ELSE (Head(b) * (Len(b) + k) + WeightedSum(Tail(b), k)) % 256

\* bitcoin.DoubleSha256, of which only the first four bytes are used: a
\* stand-in digest of four bytes that depends on every byte and its place
DoubleSha256(b) == [k \in 1 .. 4 |-> WeightedSum(b, k)]

\* encodeAddress
encodeAddress(b) == Base58(b \o SubSeq(DoubleSha256(b), 1, 4))

\* decodeAddress
decodeAddress(address) ==
    LET b == Base58Decode(address) IN
    IF Len(b) < 5 THEN [err |-> "ErrBadCheckSum"]
    ELSE IF SubSeq(DoubleSha256(SubSeq(b, 1, Len(b) - 4)), 1, 4)
               # SubSeq(b, Len(b) - 3, Len(b))
         THEN [err |-> "ErrBadCheckSum"]
    ELSE [err |-> "nil", b |-> SubSeq(b, 1, Len(b) - 4)]

\* NewRawAddressPKH / SH / RPH: a hash of the right length
NewHashAddress(variant, hash, net) ==
    IF Len(hash) # ScriptHashLength THEN [err |-> "ErrBadScriptHashLength"]
    ELSE [err |-> "nil", variant |-> variant, net |-> net, hash |-> hash]

NewAddressPKH(pkh, net) == NewHashAddress("PKH", pkh, net)
NewAddressSH(sh, net) == NewHashAddress("SH", sh, net)
NewAddressRPH(rph, net) == NewHashAddress("RPH", rph, net)

\* NewAddressMultiPKH
NewAddressMultiPKH(required, pkhs, net) ==
    IF \E i \in DOMAIN pkhs : Len(pkhs[i]) # ScriptHashLength
       THEN [err |-> "ErrBadScriptHashLength"]
       ELSE [err |-> "nil", variant |-> "MultiPKH", net |-> net,
             required |-> required, pkhs |-> pkhs]

\* The address type byte of a variant on a network
AddressType(variant, net) ==
    CASE variant = "PKH" ->
            IF net = "MainNet" THEN addressTypeMainPKH ELSE addressTypeTestPKH
      [] variant = "SH" ->
            IF net = "MainNet" THEN addressTypeMainSH ELSE addressTypeTestSH
      [] variant = "MultiPKH" ->
            IF net = "MainNet" THEN addressTypeMainMultiPKH ELSE addressTypeTestMultiPKH
      [] variant = "RPH" ->
            IF net = "MainNet" THEN addressTypeMainRPH ELSE addressTypeTestRPH

RECURSIVE Concat(_)
Concat(seqs) == IF seqs = <<>> THEN <<>> ELSE Head(seqs) \o Concat(Tail(seqs))

\* Address.bytes: the type byte and the address data; a multi-PKH address
\* writes the required count as a little-endian uint16 before the hashes
bytes(a) ==
    IF a.variant = "MultiPKH"
       THEN <<AddressType(a.variant, a.net)>>
            \o <<a.required % 256, a.required \div 256>> \o Concat(a.pkhs)
       ELSE <<AddressType(a.variant, a.net)>> \o a.hash

\* Address.String
String(a) == encodeAddress(bytes(a))

\* The multi-PKH loop of decodeAddressBytes, `for len(b) >= 0`, over the
\* bytes b left with the hashes pkhs read so far
RECURSIVE ReadPKHs(_, _, _, _)
ReadPKHs(b, required, pkhs, net) ==
    IF ~(Len(b) >= 0) THEN NewAddressMultiPKH(required, pkhs, net)
    ELSE IF Len(b) < ScriptHashLength THEN [err |-> "ErrBadScriptHashLength"]
    ELSE ReadPKHs(SubSeq(b, ScriptHashLength + 1, Len(b)), required,
                  Append(pkhs, SubSeq(b, 1, ScriptHashLength)), net)

\* The multi-PKH case of decodeAddressBytes; b[:2] of fewer than two bytes
\* panics
DecodeMultiPKH(b, net) ==
    LET rest == Tail(b) IN
    IF Len(rest) < 2 THEN [err |-> "panic"]
    ELSE ReadPKHs(SubSeq(rest, 3, Len(rest)), rest[1] + 256 * rest[2], <<>>, net)

\* decodeAddressBytes
decodeAddressBytes(b) ==
    IF Len(b) < 2 THEN [err |-> "ErrBadType"]
    ELSE CASE b[1] = addressTypeMainPKH -> NewAddressPKH(Tail(b), "MainNet")
           [] b[1] = addressTypeMainSH -> NewAddressSH(Tail(b), "MainNet")
           [] b[1] = addressTypeMainMultiPKH -> DecodeMultiPKH(b, "MainNet")
           [] b[1] = addressTypeMainRPH -> NewAddressRPH(Tail(b), "MainNet")
           [] b[1] = addressTypeTestPKH -> NewAddressPKH(Tail(b), "TestNet")
           [] b[1] = addressTypeTestSH -> NewAddressSH(Tail(b), "TestNet")
           [] b[1] = addressTypeTestMultiPKH -> DecodeMultiPKH(b, "TestNet")
           [] b[1] = addressTypeTestRPH -> NewAddressRPH(Tail(b), "TestNet")
           [] OTHER -> [err |-> "ErrBadType"]

\* DecodeAddress
DecodeAddress(address) ==
    LET d == decodeAddress(address) IN
    IF d.err # "nil" THEN d ELSE decodeAddressBytes(d.b)

\* The hashes and the addresses of the study
HashBytes == {0, 255}
Hashes == [1 .. ScriptHashLength -> HashBytes]
Networks == {"MainNet", "TestNet"}
Addresses ==
    {NewHashAddress(v, h, n) : v \in {"PKH", "SH", "RPH"}, h \in Hashes, n \in Networks}
    \union {NewAddressMultiPKH(r, l, n) :
               r \in 1 .. MaxPKHs,
               l \in UNION {[1 .. k -> Hashes] : k \in 1 .. MaxPKHs},
               n \in Networks}

AddressInit ==
    /\ now = 0
    /\ ct = NoContract
    /\ cf = NoFormation
    /\ assets = [a \in AssetIdx |-> NoAsset]
    /\ holdings = [a \in AssetIdx |-> [p \in Senders |-> ZeroHolding]]
    /\ responses = <<>>
    /\ committed = 0
    /\ recent = NoneRecent
    /\ ListenerInit
    /\ ProcInit
    /\ arg \in Addresses
    /\ result = NoCall

\* a.String()
CallString ==
    /\ result = NoCall
    /\ result' = [fn |-> "String", value |-> String(arg)]
    /\ UNCHANGED <<agentVars, listenerVars, arg, procVars>>

\* DecodeAddress of the text a.String() returned
CallDecodeAddress ==
    /\ result.fn = "String"
    /\ result' = [fn |-> "DecodeAddress", value |-> DecodeAddress(result.value)]
    /\ UNCHANGED <<agentVars, listenerVars, arg, procVars>>

AddressNext == CallString \/ CallDecodeAddress

AddressSpec == AddressInit /\ [][AddressNext]_vars

\* ------------------------------------------------------ asset payload codec
\* Bytes are numbers in 0 .. 255, buffers and strings are sequences of bytes.
\* A read returns whether it succeeded, the value and the rest of the buffer.
ReadOk(value, rest) == [ok |-> TRUE, value |-> value, rest |-> rest]
ReadFailed == [ok |-> FALSE, value |-> <<>>, rest |-> <<>>]

\* pad: b followed by NUL bytes up to length l
pad(b, l) == b \o [i \in 1 .. (l - Len(b)) |-> 0]

\* The little-endian bytes of an unsigned integer of the given width
RECURSIVE writeUint(_, _)
writeUint(v, width) ==
    IF width = 0 THEN <<>> ELSE <<v % 256>> \o writeUint(v \div 256, width - 1)

\* The unsigned integer of little-endian bytes
RECURSIVE uintOf(_)
uintOf(b) == IF b = <<>> THEN 0 ELSE Head(b) + 256 * uintOf(Tail(b))

\* readLen: the next width bytes of the buffer
readLen(buf, width) ==
    IF Len(buf) < width THEN ReadFailed
    ELSE ReadOk(SubSeq(buf, 1, width), SubSeq(buf, width + 1, Len(buf)))

\* read of an unsigned integer of the given width
readUint(buf, width) ==
    LET r == readLen(buf, width) IN
    IF r.ok THEN ReadOk(uintOf(r.value), r.rest) ELSE ReadFailed

\* The width of the length prefix of a variable field of at most max bytes
SizeWidth(max) == IF max < 256 THEN 1 ELSE IF max < 65536 THEN 2 ELSE 4

\* WriteVarChar: the length and the bytes; an error when longer than max
WriteVarChar(value, max) ==
    IF Len(value) > max THEN [ok |-> FALSE, bytes |-> <<>>]
    ELSE [ok |-> TRUE, bytes |-> writeUint(Len(value), SizeWidth(max)) \o value]

\* ReadVarChar
ReadVarChar(buf, max) ==
    LET size == readUint(buf, SizeWidth(max)) IN
    IF ~size.ok \/ size.value > max THEN ReadFailed
    ELSE readLen(size.rest, size.value)

\* WriteFixedChar: the bytes right-padded with NUL; an error when too long
WriteFixedChar(value, size) ==
    IF Len(value) > size THEN [ok |-> FALSE, bytes |-> <<>>]
    ELSE [ok |-> TRUE, bytes |-> pad(value, size)]

\* b without the NUL bytes at its end
RECURSIVE TrimRight(_)
TrimRight(b) ==
    IF b # <<>> /\ b[Len(b)] = 0 THEN TrimRight(SubSeq(b, 1, Len(b) - 1)) ELSE b

\* ReadFixedChar: size bytes without the padding
ReadFixedChar(buf, size) ==
    LET r == readLen(buf, size) IN
    IF r.ok THEN ReadOk(TrimRight(r.value), r.rest) ELSE ReadFailed

\* Coupon.serialize
CouponSerialize(m) ==
    LET redeemingEntity == WriteVarChar(m.RedeemingEntity, 255)
        currency == WriteFixedChar(m.Currency, 3)
        description == WriteVarChar(m.Description, 16) IN
    IF ~(redeemingEntity.ok /\ currency.ok /\ description.ok)
       THEN [err |-> TRUE, bytes |-> <<>>]
    ELSE [err |-> FALSE,
          bytes |-> writeUint(m.Version, 1)
                    \o pad(m.TradingRestriction, 5)
                    \o redeemingEntity.bytes
                    \o writeUint(m.IssueDate, 8)
                    \o writeUint(m.ExpiryDate, 8)
                    \o writeUint(m.Value, 8)
                    \o currency.bytes
                    \o description.bytes]

\* Coupon.write: the fields read from b in order, the count it returns and
\* the number of bytes left in the buffer
CouponWrite(b) ==
    LET version == readUint(b, 1)
        tradingRestriction == readLen(version.rest, 5)
        redeemingEntity == ReadVarChar(tradingRestriction.rest, 255)
        issueDate == readUint(redeemingEntity.rest, 8)
        expiryDate == readUint(issueDate.rest, 8)
        value == readUint(expiryDate.rest, 8)
        currency == ReadFixedChar(value.rest, 3)
        description == ReadVarChar(currency.rest, 16) IN
    IF ~(/\ version.ok /\ tradingRestriction.ok /\ redeemingEntity.ok
         /\ issueDate.ok /\ expiryDate.ok /\ value.ok /\ currency.ok
         /\ description.ok)
       THEN [err |-> TRUE, n |-> 0]
    ELSE [err |-> FALSE, n |-> Len(b), unread |-> Len(description.rest),
          m |-> [Version |-> version.value,
                 TradingRestriction |-> tradingRestriction.value,
                 RedeemingEntity |-> redeemingEntity.value,
                 IssueDate |-> issueDate.value,
                 ExpiryDate |-> expiryDate.value,
                 Value |-> value.value,
                 Currency |-> currency.value,
                 Description |-> description.value]]

\* The strings of at most MaxText letters
Texts == UNION {[1 .. n -> {65, 66}] : n \in 0 .. MaxText}

\* The coupons of the round trips
Coupons ==
    [Version : {0, 1},
     TradingRestriction : {<<>>, <<1>>, <<0, 0, 0, 0, 0>>, <<1, 2, 3, 4, 5>>},
     RedeemingEntity : {<<>>, <<65, 66>>},
     IssueDate : {0, 300},
     ExpiryDate : {0, 1},
     Value : {0, 65537},
     Currency : {t \in Texts : Len(t) # 1},
     Description : Texts]

CodecInit ==
    /\ now = 0
    /\ ct = NoContract
    /\ cf = NoFormation
    /\ assets = [a \in AssetIdx |-> NoAsset]
    /\ holdings = [a \in AssetIdx |-> [p \in Senders |-> ZeroHolding]]
    /\ responses = <<>>
    /\ committed = 0
    /\ recent = NoneRecent
    /\ ListenerInit
    /\ ProcInit
    /\ arg \in Coupons
    /\ result = NoCall

\* The coupon is serialized
CallSerialize ==
    /\ result = NoCall
    /\ result' = [fn |-> "serialize", value |-> CouponSerialize(arg)]
    /\ UNCHANGED <<agentVars, listenerVars, arg, procVars>>

\* The bytes of the coupon are decoded
CallWrite ==
    /\ result.fn = "serialize"
    /\ ~result.value.err
    /\ result' = [fn |-> "write", data |-> result.value.bytes,
                  value |-> CouponWrite(result.value.bytes)]
    /\ UNCHANGED <<agentVars, listenerVars, arg, procVars>>

\* The decoded coupon is serialized again
CallSerializeAgain ==
    /\ result.fn = "write"
    /\ ~result.value.err
    /\ result' = [fn |-> "serialize again", data |-> result.data,
                  value |-> CouponSerialize(result.value.m)]
    /\ UNCHANGED <<agentVars, listenerVars, arg, procVars>>

CodecNext == CallSerialize \/ CallWrite \/ CallSerializeAgain

CodecSpec == CodecInit /\ [][CodecNext]_vars

\* --------------------------------------------- enforcement: thaw, confiscation,
\* reconciliation.  Asset balances are a function from holder to quantity.
Holders == {"alice", "bob", "carol"}
FeeAddr == "fee"
ZeroAssetCode == "zero"     \* AssetCode.IsZero()

\* asset.GetBalance
GetBalance(balances, address) == balances[address]

\* asset.Update with NewBalances: each listed holder gets the new balance
UpdateBalances(balances, newBalances) ==
    [a \in DOMAIN balances |->
        IF a \in DOMAIN newBalances THEN newBalances[a] ELSE balances[a]]

\* w.AddOutput for each address of the list, in order, with value 0
Notify(addresses) == [i \in DOMAIN addresses |-> [Address |-> addresses[i], Value |-> 0]]

\* The outputs every enforcement response ends with: the contract's change
\* output and the fee output
ChangeAndFee == <<[Address |-> ContractAddress, Value |-> 0],
                  [Address |-> FeeAddr, Value |-> 0]>>

\* Whether the freeze of the cached tx is a full freeze: one quantity, whose
\* output is the contract's
IsFullFreeze(freezeTx) ==
    /\ Len(freezeTx.Quantities) = 1
    /\ freezeTx.Outputs[freezeTx.Quantities[1].Index + 1].Address = ContractAddress

\* Enforcement.OrderThawRequest; freezeTx is what TxCache.GetTx returns
OrderThawRequest(c, freezeTx, t, m) ==
    IF m.sender # ContractAddress THEN Failed
    ELSE IF ~freezeTx.exists THEN Failed
    ELSE IF freezeTx.kind # "Freeze" THEN Failed
    ELSE IF ~c.exists THEN Failed
    ELSE IF Len(freezeTx.Quantities) = 0 THEN Reject("Malformed")
    ELSE IF freezeTx.AssetCode = ZeroAssetCode /\ ~IsFullFreeze(freezeTx)
         THEN Reject("Malformed")
    ELSE Success([kind |-> "Thaw", request |-> "Order",
                  FreezeTxId |-> m.FreezeTxId, Timestamp |-> t,
                  Outputs |->
                     (IF freezeTx.AssetCode # ZeroAssetCode /\ ~IsFullFreeze(freezeTx)
                         THEN Notify([i \in DOMAIN freezeTx.Quantities |->
                                 freezeTx.Outputs[freezeTx.Quantities[i].Index + 1].Address])
                         ELSE <<>>)
                     \o ChangeAndFee])

\* The target loop of OrderConfiscateRequest from target i on: the
\* quantities and the deposit quantity so far
RECURSIVE ConfiscateTargets(_, _, _, _, _)
ConfiscateTargets(balances, targets, i, quantities, depositQty) ==
    IF i > Len(targets)
       THEN [out |-> "OK", Quantities |-> quantities, DepositQty |-> depositQty]
    ELSE LET target == targets[i]
             balance == GetBalance(balances, target.Address) IN
         IF target.Quantity = 0 THEN [out |-> "Malformed"]
         ELSE IF target.Quantity > balance THEN [out |-> "InsufficientAssets"]
         ELSE ConfiscateTargets(balances, targets, i + 1,
                  Append(quantities, [Index |-> i - 1,
                                      Quantity |-> SubUint(balance, target.Quantity)]),
                  AddUint(depositQty, target.Quantity))

\* Enforcement.OrderConfiscateRequest on an asset with the given balances
OrderConfiscateRequest(c, balances, t, m) ==
    IF ~c.exists THEN Failed
    ELSE LET r == ConfiscateTargets(balances, m.TargetAddresses, 1, <<>>,
                                    GetBalance(balances, m.DepositAddress)) IN
         IF r.out # "OK" THEN Reject(r.out)
         ELSE Success([kind |-> "Confiscation", request |-> "Order",
                       AssetCode |-> m.AssetCode, Timestamp |-> t,
                       Quantities |-> r.Quantities, DepositQty |-> r.DepositQty,
                       Outputs |->
                          Notify([i \in DOMAIN m.TargetAddresses |->
                                     m.TargetAddresses[i].Address])
                          \o Notify(<<m.DepositAddress>>) \o ChangeAndFee])

\* The NewBalances map ConfiscationResponse fills from quantity i on
RECURSIVE QuantityBalances(_, _, _, _)
QuantityBalances(msg, outputs, i, newBalances) ==
    IF i > Len(msg.Quantities) THEN newBalances
    ELSE QuantityBalances(msg, outputs, i + 1,
             Put(newBalances, outputs[msg.Quantities[i].Index + 1].Address,
                 msg.Quantities[i].Quantity))

\* The highest output index of the quantities, 0 when there is none
HighestIndex(quantities) ==
    IF quantities = <<>> THEN 0
    ELSE CHOOSE h \in {quantities[i].Index : i \in DOMAIN quantities} :
            \A i \in DOMAIN quantities : quantities[i].Index <= h

\* Enforcement.ConfiscationResponse: the balances after the commit of the
\* confiscation msg, whose tx has the given outputs
ConfiscationResponse(balances, msg) ==
    LET targets == QuantityBalances(msg, msg.Outputs, 1, EmptyMap)
        deposit == msg.Outputs[HighestIndex(msg.Quantities) + 2].Address IN
    UpdateBalances(balances, Put(targets, deposit, msg.DepositQty))

\* Enforcement.ReconciliationResponse: the balances after the commit of the
\* reconciliation msg, whose tx has the given outputs
ReconciliationResponse(balances, msg) ==
    UpdateBalances(balances, QuantityBalances(msg, msg.Outputs, 1, EmptyMap))

\* TxCache.GetTx, TxCache.SaveTx and TxCache.RemoveTx
GetTx(cache, txid) ==
    IF txid \in DOMAIN cache THEN cache[txid] ELSE [exists |-> FALSE]
SaveTx(cache, txid, tx) == Put(cache, txid, tx)
RemoveTx(cache, txid) == [x \in DOMAIN cache \ {txid} |-> cache[x]]

\* Enforcement.ThawResponse; freezeTx is what TxCache.GetTx returns for the
\* FreezeTxId of the thaw.  A thaw of a contract-wide freeze clears the
\* FreezePeriod of the contract; the thaw of an asset or of holdings changes
\* the asset.  A thaw that is carried out removes the freeze tx from the
\* cache.
ThawResponse(c, freezeTx, msg) ==
    IF ~freezeTx.exists THEN [ct |-> c, removed |-> FALSE, out |-> "Error"]
    ELSE IF freezeTx.kind # "Freeze"
        THEN [ct |-> c, removed |-> FALSE, out |-> "Error"]
    ELSE IF Len(freezeTx.Quantities) = 0
        THEN [ct |-> c, removed |-> FALSE, out |-> "Error"]
    ELSE IF freezeTx.AssetCode # ZeroAssetCode
        THEN [ct |-> c, removed |-> TRUE, out |-> "Done"]
    ELSE IF ~IsFullFreeze(freezeTx)
        THEN [ct |-> c, removed |-> FALSE, out |-> "Error"]
    ELSE IF ~c.exists THEN [ct |-> c, removed |-> FALSE, out |-> "Error"]
    ELSE [ct |-> [c EXCEPT !.FreezePeriod = 0, !.UpdatedAt = msg.Timestamp],
          removed |-> TRUE, out |-> "Done"]

\* The target loop of OrderReconciliationRequest
RECURSIVE ReconcileTargets(_, _, _, _)
ReconcileTargets(balances, targets, i, quantities) ==
    IF i > Len(targets) THEN [out |-> "OK", Quantities |-> quantities]
    ELSE LET target == targets[i]
             balance == GetBalance(balances, target.Address) IN
         IF target.Quantity = 0 THEN [out |-> "Malformed"]
         ELSE IF target.Quantity > balance THEN [out |-> "InsufficientAssets"]
         ELSE ReconcileTargets(balances, targets, i + 1,
                  Append(quantities, [Index |-> i - 1,
                                      Quantity |-> SubUint(balance, target.Quantity)]))

\* The bitcoin dispersion loop of OrderReconciliationRequest from dispersion
\* i on: an entry whose Index is not below the number of targets indexes
\* addressOutputIndex out of range, any other entry is passed over
RECURSIVE Disperse(_, _, _)
Disperse(outputs, dispersions, i) ==
    IF i > Len(dispersions) THEN [out |-> "OK", outputs |-> outputs]
    ELSE IF dispersions[i].Index >= Len(outputs) THEN [out |-> "Panic"]
    ELSE Disperse(outputs, dispersions, i + 1)

\* Enforcement.OrderReconciliationRequest
OrderReconciliationRequest(c, balances, t, m) ==
    IF ~c.exists THEN Failed
    ELSE LET r == ReconcileTargets(balances, m.TargetAddresses, 1, <<>>) IN
         IF r.out # "OK" THEN Reject(r.out)
         ELSE LET d == Disperse(Notify([i \in DOMAIN m.TargetAddresses |->
                                           m.TargetAddresses[i].Address]),
                                m.BitcoinDispersions, 1) IN
              IF d.out # "OK" THEN [out |-> "Panic", resp |-> NoResp]
              ELSE Success([kind |-> "Reconciliation", request |-> "Order",
                            AssetCode |-> m.AssetCode,
                            Timestamp |-> t, Quantities |-> r.Quantities,
                            Outputs |-> d.outputs \o ChangeAndFee])

\* Enforcement.OrderRequest for the compliance actions thaw, confiscation
\* and reconciliation of an order without an enforcement authority
OrderRequestByAction(c, freezeTx, balances, t, m) ==
    IF ~c.exists THEN Failed
    ELSE IF ~IsOperator(c, m.sender) THEN Reject("OperatorAddress")
    ELSE CASE m.ComplianceAction = "Thaw" -> OrderThawRequest(c, freezeTx, t, m)
           [] m.ComplianceAction = "Confiscation" ->
                 OrderConfiscateRequest(c, balances, t, m)
           [] m.ComplianceAction = "Reconciliation" ->
                 OrderReconciliationRequest(c, balances, t, m)

\* The contract of the enforcement cases, administered by admin
EnforcedContract(admin) ==
    Create([AdminAddress |-> admin, OperatorAddress |-> OperatorAddr,
            MasterAddress |-> MasterAddr, RestrictedQtyAssets |-> 0,
            ContractExpiration |-> 0], 0)

NoFreezeTx == [exists |-> FALSE]
TargetLists ==
    UNION {[1 .. n -> [Address : Holders, Quantity : 0 .. MaxBalance]] :
              n \in 0 .. MaxTargets}
DispersionLists ==
    UNION {[1 .. n -> [Index : 0 .. MaxTargets, Quantity : 1 .. MaxValue]] :
              n \in 0 .. MaxTargets}

\* The cached freeze txs: outputs to two holders and the contract, and one
\* to MaxTargets quantities that name outputs
FreezeTxs ==
    {[exists |-> TRUE, kind |-> "Freeze", AssetCode |-> a,
      Quantities |-> q,
      Outputs |-> Notify(<<"alice", "bob", ContractAddress>>)] :
        a \in {ZeroAssetCode, "asset"},
        q \in UNION {[1 .. n -> [Index : 0 .. 2]] : n \in 1 .. MaxTargets}}

EmptyOrder ==
    [ComplianceAction |-> "None", sender |-> OperatorAddr, FreezeTxId |-> NoTx,
     AssetCode |-> 0, TargetAddresses |-> <<>>, DepositAddress |-> "carol",
     BitcoinDispersions |-> <<>>]

\* The enforcement cases: an order, the contract, the cached freeze tx and
\* the balances of the asset
ThawCases ==
    {[order |-> [EmptyOrder EXCEPT !.ComplianceAction = "Thaw", !.sender = s,
                                   !.FreezeTxId = "freeze"],
      contract |-> EnforcedContract(a), freezeTx |-> f,
      balances |-> [h \in Holders |-> 0]] :
        s \in {AdminAddr, OperatorAddr, ContractAddress, "user"},
        a \in {AdminAddr, ContractAddress},
        f \in FreezeTxs \union {NoFreezeTx}}
ConfiscationCases ==
    {[order |-> [EmptyOrder EXCEPT !.ComplianceAction = "Confiscation",
                                   !.sender = s, !.TargetAddresses = l,
                                   !.DepositAddress = d],
      contract |-> EnforcedContract(AdminAddr), freezeTx |-> NoFreezeTx,
      balances |-> b] :
        s \in {OperatorAddr, "user"}, l \in TargetLists, d \in Holders,
        b \in [Holders -> 0 .. MaxBalance]}
ReconciliationCases ==
    {[order |-> [EmptyOrder EXCEPT !.ComplianceAction = "Reconciliation",
                                   !.TargetAddresses = l,
                                   !.BitcoinDispersions = d],
      contract |-> EnforcedContract(AdminAddr), freezeTx |-> NoFreezeTx,
      balances |-> [h \in Holders |-> b]] :
        l \in TargetLists, d \in DispersionLists, b \in 0 .. MaxBalance}

EnforcementInit ==
    /\ now = 0
    /\ ct = NoContract
    /\ cf = NoFormation
    /\ assets = [a \in AssetIdx |-> NoAsset]
    /\ holdings = [a \in AssetIdx |-> [p \in Senders |-> ZeroHolding]]
    /\ responses = <<>>
    /\ committed = 0
    /\ recent = NoneRecent
    /\ ListenerInit
    /\ ProcInit
    /\ arg \in ThawCases \union ConfiscationCases \union ReconciliationCases
    /\ result = NoCall

\* The order of the case is handled
CallOrderRequest ==
    /\ result = NoCall
    /\ result' = [fn |-> "OrderRequest",
                  value |-> OrderRequestByAction(arg.contract, arg.freezeTx,
                                                 arg.balances, now, arg.order)]
    /\ UNCHANGED <<agentVars, listenerVars, arg, procVars>>

\* The confiscation the order was answered with is committed
CallConfiscationResponse ==
    /\ result.fn = "OrderRequest"
    /\ result.value.out = "Success"
    /\ result.value.resp.kind = "Confiscation"
    /\ result' = [fn |-> "ConfiscationResponse",
                  value |-> ConfiscationResponse(arg.balances, result.value.resp)]
    /\ UNCHANGED <<agentVars, listenerVars, arg, procVars>>

EnforcementNext == CallOrderRequest \/ CallConfiscationResponse

EnforcementSpec == EnforcementInit /\ [][EnforcementNext]_vars

\* ------------------------------------------------------------- state machine
Init ==
    /\ now = 0
    /\ ct = NoContract
    /\ cf = NoFormation
    /\ assets = [a \in AssetIdx |-> NoAsset]
    /\ holdings = [a \in AssetIdx |-> [p \in Senders |-> ZeroHolding]]
    /\ responses = <<>>
    /\ committed = 0
    /\ recent = NoneRecent
    /\ ListenerInit
    /\ ProcInit
    /\ arg = NoCall /\ result = NoCall

\* Time passes between two handler calls.
Tick ==
    /\ now < MaxTime
    /\ now' = now + 1
    /\ UNCHANGED <<ct, cf, assets, holdings, responses, committed, recent>>
    /\ UNCHANGED <<listenerVars, callVars, procVars>>

\* A request handler ran on message m with result r: the success response is
\* broadcast.  A rejected request changes no stored state.
RespondWithin(r, inFlight) ==
    /\ r.out = "Success" => /\ Len(responses) < MaxResponses
                             /\ Len(responses) - committed < inFlight
    /\ responses' = IF r.out = "Success" THEN Append(responses, r.resp) ELSE responses
    /\ recent' = NoneRecent
    /\ UNCHANGED <<now, committed, listenerVars, callVars, procVars>>

Respond(m, r) == RespondWithin(r, MaxInFlight)

\* A ContractOffer is handled; an accepted offer saves its formation.
HandleOffer(m) ==
    LET r == OfferRequest(ct, now, m) IN
    /\ Respond(m, r)
    /\ cf' = IF r.out = "Success" THEN r.resp ELSE cf
    /\ UNCHANGED <<ct, assets, holdings>>

\* A ContractAmendment is handled; an accepted one saves its formation.
HandleAmendment(m) ==
    LET r == AmendmentRequest(ct, cf, now, m) IN
    /\ Respond(m, r)
    /\ cf' = IF r.out = "Success" THEN r.resp ELSE cf
    /\ UNCHANGED <<ct, assets, holdings>>

\* An AssetDefinition is handled.  Asset codes beyond AssetIdx are not
\* explored.
HandleDefinition(m) ==
    LET r == DefinitionRequest(ct, assets, now, m) IN
    /\ r.out = "Success" => r.resp.AssetCode \in AssetIdx
    /\ Respond(m, r)
    /\ UNCHANGED <<ct, cf, assets, holdings>>

\* An AssetModification is handled; an accepted one that changes the token
\* quantity saves the administration holding with its pending adjustment.
HandleModification(m) ==
    LET h == IF ct.exists THEN holdings[m.AssetCode][ct.AdminAddress] ELSE ZeroHolding
        r == ModificationRequest(ct, assets, h, now, Len(responses) + 1, m) IN
    /\ Respond(m, r)
    /\ holdings' = IF r.out = "Success"
                      THEN [holdings EXCEPT ![m.AssetCode][ct.AdminAddress] = r.holding]
                      ELSE holdings
    /\ UNCHANGED <<ct, cf, assets>>

\* An Order is handled.
HandleOrder(m) ==
    LET r == OrderRequest(ct, now, m) IN
    /\ Respond(m, r)
    /\ UNCHANGED <<ct, cf, assets, holdings>>

\* A ContractAddressChange is handled; it commits the move itself.
HandleAddressChange(m) ==
    LET r == AddressChange(ct, m) IN
    /\ ct' = r.ct
    /\ recent' = NoneRecent
    /\ UNCHANGED <<now, cf, assets, holdings, responses, committed>>
    /\ UNCHANGED <<listenerVars, callVars, procVars>>

\* The tx of the Freeze that answers an order for a contract-wide freeze: its
\* one quantity names output 0, the change output to the contract
FreezeTx(msg) ==
    [exists |-> TRUE, kind |-> "Freeze", AssetCode |-> ZeroAssetCode,
     Quantities |-> <<[Index |-> 0, Quantity |-> 0]>>,
     Outputs |-> ChangeAndFee]

\* The balances of the holdings hs of asset a, and hs with the balances nb
\* (asset.Update with NewBalances)
HoldingBalances(hs, a) == [p \in DOMAIN hs[a] |-> hs[a][p].FinalizedBalance]
WithBalances(hs, a, nb) ==
    [hs EXCEPT ![a] = [p \in DOMAIN @ |-> [@[p] EXCEPT !.FinalizedBalance = nb[p]]]]

\* The response handler for responses[n] runs at the current time.
ProcessResponse(n) ==
    LET msg == responses[n]
        same == [ct |-> ct, assets |-> assets, holdings |-> holdings,
                 cache |-> TxCache, out |-> "Error"] IN
    CASE msg.kind = "Formation" ->
            LET r == FormationResponse(ct, now, msg) IN
            [same EXCEPT !.ct = r.ct, !.out = r.out]
      [] msg.kind = "Creation" ->
            [cache |-> TxCache] @@ CreationResponse(ct, assets, holdings, now, n, msg)
      [] msg.kind = "Freeze" ->
            LET r == FreezeResponse(ct, msg) IN
            [same EXCEPT !.ct = r.ct, !.out = r.out,
                         !.cache = IF r.out = "Done"
                                      THEN SaveTx(TxCache, ResponseTxId(n), FreezeTx(msg))
                                      ELSE TxCache]
      [] msg.kind = "Thaw" ->
            LET r == ThawResponse(ct, GetTx(TxCache, msg.FreezeTxId), msg) IN
            [same EXCEPT !.ct = r.ct, !.out = r.out,
                         !.cache = IF r.removed
                                      THEN RemoveTx(TxCache, msg.FreezeTxId)
                                      ELSE TxCache]
      [] msg.kind = "Confiscation" ->
            IF ~assets[msg.AssetCode].exists THEN same
            ELSE [same EXCEPT
                    !.holdings = WithBalances(holdings, msg.AssetCode,
                        ConfiscationResponse(
                            HoldingBalances(holdings, msg.AssetCode), msg)),
                    !.out = "Done"]
      [] msg.kind = "Reconciliation" ->
            IF ~assets[msg.AssetCode].exists THEN same
            ELSE [same EXCEPT
                    !.holdings = WithBalances(holdings, msg.AssetCode,
                        ReconciliationResponse(
                            HoldingBalances(holdings, msg.AssetCode), msg)),
                    !.out = "Done"]

Process(n) ==
    LET r == ProcessResponse(n) IN
    /\ ct' = r.ct
    /\ assets' = r.assets
    /\ holdings' = r.holdings
    /\ TxCache' = r.cache
    /\ recent' = [n |-> n, again |-> recent.n = n]
    /\ UNCHANGED <<now, cf, responses, listenerVars, callVars>>
    /\ UNCHANGED <<store, mutex, KeyStore, lock, pc, votes, transfers, jobs,
                   emitted>>

\* The next broadcast response is seen and committed for the first time.
CommitNext ==
    /\ committed < Len(responses)
    /\ Process(committed + 1)
    /\ committed' = committed + 1

\* A response that was committed before is delivered and processed again.
Replay(n) ==
    /\ n \in 1 .. committed
    /\ Process(n)
    /\ UNCHANGED committed

Next ==
    \/ Tick
    \/ \E m \in OfferMsgs : HandleOffer(m)
    \/ \E m \in AmendmentMsgs : HandleAmendment(m)
    \/ \E m \in DefinitionMsgs : HandleDefinition(m)
    \/ \E m \in ModificationMsgs : HandleModification(m)
    \/ \E m \in OrderMsgs : HandleOrder(m)
    \/ \E m \in AddressChangeMsgs : HandleAddressChange(m)
    \/ CommitNext
    \/ \E n \in 1 .. MaxResponses : Replay(n)

Spec == Init /\ [][Next]_vars

\* ------------------------------------------ orders against holdings
\* A contract that the contract address administers, with one asset whose
\* tokens a user holds: the orders of the operator and of the contract
\* address freeze and thaw the contract and move the balances.
ThawOrders ==
    {[EmptyOrder EXCEPT !.ComplianceAction = "Thaw", !.sender = s,
                        !.FreezeTxId = ResponseTxId(n)] :
        s \in {ContractAddress, OperatorAddr}, n \in 1 .. 2}

HoldingTargets ==
    {<<[Address |-> "user", Quantity |-> q]>> : q \in 0 .. MaxBalance}

AssetOrders ==
    {[EmptyOrder EXCEPT !.ComplianceAction = "Confiscation",
                        !.TargetAddresses = l, !.DepositAddress = d] :
        l \in HoldingTargets, d \in {AdminAddr}}
    \cup {[EmptyOrder EXCEPT !.ComplianceAction = "Reconciliation",
                             !.TargetAddresses = l, !.DepositAddress = AdminAddr,
                             !.BitcoinDispersions = d] :
             l \in HoldingTargets,
             d \in {<<>>, <<[Index |-> 0, Quantity |-> 1]>>}}

OrderInit ==
    /\ now = 0
    /\ ct = EnforcedContract(ContractAddress)
    /\ cf = NoFormation
    /\ assets = [a \in AssetIdx |->
                    IF a = 0
                       THEN CreateAsset([TokenQty |-> MaxBalance, permitted |-> {},
                                         proposalPermitted |-> {},
                                         VotingSystemsAllowed |-> NoVotingSystems,
                                         AssetType |-> "COU",
                                         MembershipClass |-> NoClass], 0)
                       ELSE NoAsset]
    /\ holdings = [a \in AssetIdx |-> [p \in Senders |->
                      IF a = 0 /\ p = "user"
                         THEN [ZeroHolding EXCEPT !.FinalizedBalance = MaxBalance]
                         ELSE ZeroHolding]]
    /\ responses = <<>>
    /\ committed = 0
    /\ recent = NoneRecent
    /\ ListenerInit
    /\ ProcInit
    /\ arg = NoCall /\ result = NoCall

\* An Order to thaw is handled: the freeze tx it names is looked up in the
\* TxCache.
HandleThawOrder(m) ==
    LET r == OrderRequestByAction(ct, GetTx(TxCache, m.FreezeTxId),
                                  HoldingBalances(holdings, m.AssetCode), now, m) IN
    /\ Len(responses) < MaxOrders
    /\ Respond(m, r)
    /\ UNCHANGED <<ct, cf, assets, holdings>>

\* An Order to confiscate or to reconcile is handled on the balances of the
\* asset it names.
HandleAssetOrder(m) ==
    LET r == IF ct.exists /\ IsOperator(ct, m.sender)
                          /\ ~assets[m.AssetCode].exists
                THEN Reject("AssetNotFound")
                ELSE OrderRequestByAction(ct, [exists |-> FALSE],
                         HoldingBalances(holdings, m.AssetCode), now, m) IN
    /\ Len(responses) < MaxOrders
    /\ Respond(m, r)
    /\ UNCHANGED <<ct, cf, assets, holdings>>

\* An Order to freeze is handled.
HandleFreezeOrder(m) ==
    /\ Len(responses) < MaxOrders
    /\ HandleOrder(m)

OrderNext ==
    \/ Tick
    \/ \E m \in OrderMsgs : HandleFreezeOrder(m)
    \/ \E m \in ThawOrders : HandleThawOrder(m)
    \/ \E m \in AssetOrders : HandleAssetOrder(m)
    \/ CommitNext
    \/ \E n \in 1 .. MaxResponses : Replay(n)

OrderSpec == OrderInit /\ [][OrderNext]_vars

\* The listener on its own: the node's notifications in any order
ListenerSpec == Init /\ [][ListenerNext]_vars

\* ---------------------------------------------------------------- properties
\* The requests of each kind that pass the message validation.
ValidAmendments == {m \in AmendmentMsgs : m.RejectCode = "OK"}
ValidDefinitions == {m \in DefinitionMsgs : m.RejectCode = "OK"}
ValidModifications == {m \in ModificationMsgs : m.RejectCode = "OK"}
ValidAddressChanges == {m \in AddressChangeMsgs : m.RejectCode = "OK"}

\* The administration holding ModificationRequest reads for message m
AdminHolding(m) ==
    IF ct.exists THEN holdings[m.AssetCode][ct.AdminAddress] ELSE ZeroHolding

\* The answers of the request handlers in the current state
AmendmentAnswer(m) == AmendmentRequest(ct, cf, now, m)
DefinitionAnswer(m) == DefinitionRequest(ct, assets, now, m)
ModificationAnswer(m) ==
    ModificationRequest(ct, assets, AdminHolding(m), now, Len(responses) + 1, m)

\* C1: the stored Revision of the contract and of every asset never decreases
\* in any step, the replay of an older response after a newer one included.
C1_RevisionNeverDecreases ==
    [][/\ (ct.exists /\ ct'.exists) => ct'.Revision >= ct.Revision
       /\ \A a \in AssetIdx :
            (assets[a].exists /\ assets'[a].exists)
                => assets'[a].Revision >= assets[a].Revision]_vars

\* C2: an amendment (modification) that names a revision other than the stored
\* contract (asset) revision is never accepted, and is rejected with
\* ContractRevision (AssetRevision) once the checks before the revision check
\* pass: valid message, contract not moved, sender an operator; an accepted
\* amendment or modification is answered with the stored revision + 1.
C2_RevisionMismatchRejected ==
    /\ \A m \in AmendmentMsgs :
         /\ (ct.exists /\ m.ContractRevision # ct.Revision)
                => AmendmentAnswer(m).out # "Success"
         /\ (/\ m.RejectCode = "OK" /\ ct.exists /\ ct.MovedTo = NoAddr
             /\ IsOperator(ct, m.sender) /\ m.ContractRevision # ct.Revision)
                => AmendmentAnswer(m) = Reject("ContractRevision")
         /\ AmendmentAnswer(m).out = "Success"
                => AmendmentAnswer(m).resp.ContractRevision = ct.Revision + 1
    /\ \A m \in ModificationMsgs :
         LET a == RetrieveAsset(assets, m.AssetCode) IN
         /\ (ct.exists /\ a.exists /\ m.AssetRevision # a.Revision)
                => ModificationAnswer(m).out # "Success"
         /\ (/\ m.RejectCode = "OK" /\ ct.exists /\ ct.MovedTo = NoAddr
             /\ IsOperator(ct, m.sender) /\ a.exists /\ m.AssetRevision # a.Revision)
                => ModificationAnswer(m).out = "AssetRevision"
         /\ ModificationAnswer(m).out = "Success"
                => ModificationAnswer(m).resp.AssetRevision = a.Revision + 1

\* A committed amendment has raised the contract revision and a committed
\* modification the revision of an asset; requests naming the old revisions
\* are rejected.
C2_Witness ==
    /\ ct.exists /\ ct.MovedTo = NoAddr /\ ct.Revision = 1
    /\ \E m \in ValidAmendments :
         /\ m.ContractRevision = 0
         /\ AmendmentAnswer(m) = Reject("ContractRevision")
    /\ \E m \in ValidModifications :
         /\ RetrieveAsset(assets, m.AssetCode).exists
         /\ RetrieveAsset(assets, m.AssetCode).Revision = 1
         /\ m.AssetRevision = 0
         /\ ModificationAnswer(m).out = "AssetRevision"

\* C3: a stored contract whose RestrictedQtyAssets is n > 0 lists at most n
\* asset codes.
C3_AssetCodesWithinLimit ==
    (ct.exists /\ ct.RestrictedQtyAssets > 0)
        => Len(ct.AssetCodes) <= ct.RestrictedQtyAssets

\* C4: a definition for a contract whose RestrictedQtyAssets is n > 0 and that
\* lists n codes or more is never answered with an AssetCreation, and is
\* rejected with ContractFixedQuantity once the checks before the count check
\* pass (valid message, contract not moved, frozen or expired, sender the
\* administration, asset code unused); with RestrictedQtyAssets 0 no
\* definition is rejected with ContractFixedQuantity.
C4_FixedQuantityRejected ==
    \A m \in DefinitionMsgs :
        /\ (/\ ct.exists /\ ct.RestrictedQtyAssets > 0
            /\ Len(ct.AssetCodes) >= ct.RestrictedQtyAssets)
               => DefinitionAnswer(m).out # "Success"
        /\ (/\ ct.exists /\ ct.RestrictedQtyAssets > 0
            /\ Len(ct.AssetCodes) >= ct.RestrictedQtyAssets
            /\ m.RejectCode = "OK" /\ ct.MovedTo = NoAddr
            /\ ct.FreezePeriod <= now
            /\ (ct.ContractExpiration = 0 \/ ct.ContractExpiration >= now)
            /\ m.sender = ct.AdminAddress
            /\ ~RetrieveAsset(assets, AssetCodeFromContract(Len(ct.AssetCodes))).exists)
               => DefinitionAnswer(m) = Reject("ContractFixedQuantity")
        /\ (ct.exists /\ ct.RestrictedQtyAssets = 0)
               => DefinitionAnswer(m).out # "ContractFixedQuantity"

\* The contract is limited to one asset, lists one, and the administration's
\* next definition is rejected with ContractFixedQuantity.
C4_Witness ==
    /\ ct.exists /\ ct.RestrictedQtyAssets = 1 /\ Len(ct.AssetCodes) = 1
    /\ \E m \in ValidDefinitions :
         /\ m.sender = ct.AdminAddress
         /\ DefinitionAnswer(m) = Reject("ContractFixedQuantity")

\* C5: once MovedTo is set, every request not sent by the master address is
\* rejected with ContractMoved and changes no state: amendments, definitions,
\* modifications, orders and address changes.
C5_MovedContractRejects ==
    (ct.exists /\ ct.MovedTo # NoAddr) =>
        /\ \A m \in ValidAmendments :
             m.sender # ct.MasterAddress
                => AmendmentAnswer(m) = Reject("ContractMoved")
        /\ \A m \in ValidDefinitions :
             m.sender # ct.MasterAddress
                => DefinitionAnswer(m) = Reject("ContractMoved")
        /\ \A m \in ValidModifications :
             m.sender # ct.MasterAddress
                => ModificationAnswer(m).out = "ContractMoved"
        /\ \A m \in OrderMsgs :
             m.sender # ct.MasterAddress
                => OrderRequest(ct, now, m) = Reject("ContractMoved")
        /\ \A m \in ValidAddressChanges :
             m.sender # ct.MasterAddress
                => AddressChange(ct, m) = [ct |-> ct, out |-> "ContractMoved"]

\* C6: while the FreezePeriod of the contract is later than the current time,
\* every valid definition, modification and amendment for the contract (not
\* moved) is rejected with ContractFrozen.
C6_FrozenContractRejects ==
    (ct.exists /\ ct.MovedTo = NoAddr /\ ct.FreezePeriod > now) =>
        /\ \A m \in ValidDefinitions :
             DefinitionAnswer(m) = Reject("ContractFrozen")
        /\ \A m \in ValidModifications :
             ModificationAnswer(m).out = "ContractFrozen"
        /\ \A m \in ValidAmendments :
             AmendmentAnswer(m) = Reject("ContractFrozen")

\* C7: while no contract is stored, every valid amendment, definition,
\* modification and address change is answered with a rejection carrying
\* ContractDoesNotExist.
C7_MissingContractRejects ==
    ~ct.exists =>
        /\ \A m \in ValidAmendments :
             AmendmentAnswer(m) = Reject("ContractDoesNotExist")
        /\ \A m \in ValidDefinitions :
             DefinitionAnswer(m) = Reject("ContractDoesNotExist")
        /\ \A m \in ValidModifications :
             ModificationAnswer(m).out = "ContractDoesNotExist"
        /\ \A m \in ValidAddressChanges :
             AddressChange(ct, m).out = "ContractDoesNotExist"

\* C8: an amendment without a proposal that passes the checks before the
\* amendments are applied and amends a field whose permission is not
\* Permitted is rejected with ContractPermissions.
C8_UnpermittedAmendmentRejected ==
    \A m \in ValidAmendments :
        (/\ ct.exists /\ ct.MovedTo = NoAddr /\ IsOperator(ct, m.sender)
         /\ m.ContractRevision = ct.Revision /\ m.RefTxID = NoTx
         /\ ~(cf.RestrictedQtyAssets > 0
              /\ cf.RestrictedQtyAssets < Len(ct.AssetCodes))
         /\ \E i \in 1 .. Len(m.Amendments) :
              /\ m.Amendments[i].field \in AmendableFields
              /\ m.Amendments[i].field \notin cf.permitted)
            => AmendmentAnswer(m) = Reject("ContractPermissions")

\* C9: an offer to an address whose contract exists is never answered with a
\* ContractFormation, and a valid one is rejected with ContractExists; an
\* offer is accepted only while no contract is stored.
C9_OfferOnlyWithoutContract ==
    \A m \in OfferMsgs :
        /\ ct.exists => OfferRequest(ct, now, m).out # "Success"
        /\ (ct.exists /\ m.RejectCode = "OK")
               => OfferRequest(ct, now, m) = Reject("ContractExists")
        /\ OfferRequest(ct, now, m).out = "Success" => ~ct.exists

\* The contract was formed by the offer answered first, and a further valid
\* offer is rejected with ContractExists.
C9_Witness ==
    /\ ct.exists /\ committed >= 1
    /\ responses[1].kind = "Formation" /\ responses[1].request = "Offer"
    /\ \E m \in OfferMsgs :
         m.RejectCode = "OK" /\ OfferRequest(ct, now, m) = Reject("ContractExists")

\* Two contract records that differ at most in UpdatedAt
SameButUpdatedAt(c, d) ==
    IF c.exists /\ d.exists
       THEN [c EXCEPT !.UpdatedAt = 0] = [d EXCEPT !.UpdatedAt = 0]
       ELSE c = d

\* C10: processing a committed response again (a Replay of any committed
\* response, at any later time) leaves the durable state as it was: for a
\* ContractFormation the contract record, and for an AssetCreation the asset
\* record, the contract's AssetCodes and the finalized balance of the
\* administration's holding of the asset, so that they are after N >= 1
\* replays as after the first commit.
C10_ReplayChangesNothing ==
    [][(recent'.n >= 1 /\ committed' = committed)
          => LET msg == responses[recent'.n] IN
             /\ msg.kind = "Formation" => ct' = ct
             /\ (msg.kind = "Creation" /\ ct.exists)
                   => /\ assets'[msg.AssetCode] = assets[msg.AssetCode]
                      /\ ct'.AssetCodes = ct.AssetCodes
                      /\ holdings'[msg.AssetCode][ct.AdminAddress].FinalizedBalance
                            = holdings[msg.AssetCode][ct.AdminAddress].FinalizedBalance]_vars

\* The narrowest reading of C10: a response processed again directly after
\* it was processed (no other response is processed in between) leaves the
\* contract record, the asset records and the holdings as they were.
C10_DirectReplayChangesNothing ==
    [][recent'.again
          => (ct' = ct /\ assets' = assets /\ holdings' = holdings)]_vars

\* The narrowest reading of C10 with the UpdatedAt time of the contract
\* record left out of the comparison.
C10_ReplayChangesOnlyUpdatedAt ==
    [][recent'.again
          => (SameButUpdatedAt(ct', ct) /\ assets' = assets
              /\ holdings' = holdings)]_vars

\* C11: a tx that was processed, then reported reverted and later reported
\* safe or confirmed again has its state change in the stored state, as
\* after committing it once, wherever HandleInSync ran in between.
C11_ReorgEndsCommittedOnce ==
    \A t \in TxIds : seen[t] = "again" => t \in applied

\* C12: a safe or confirm notification for a tx that was reported reverted
\* passes the tx through processTx again.
C12_RevertedTxProcessedAgain ==
    [][(note'.type \in {"Safe", "Confirm"} /\ seen[note'.txid] = "reverted")
          => note'.processed]_vars

\* C13: processTx runs only in a safe or confirm notification for the tx,
\* never when HandleTx announces it; a tx that was marked unsafe is processed
\* only by a confirm notification.
C13_ProcessedOnlyWhenSafe ==
    [][note'.processed
          => /\ note'.type \in {"Safe", "Confirm"}
             /\ seen[note'.txid] = "unsafe" => note'.type = "Confirm"]_vars

\* The request and response action codes as the classification is specified
RequestCodes ==
    {"ContractOffer", "ContractAmendment", "AssetDefinition",
     "AssetModification", "Transfer", "Proposal", "BallotCast", "Order",
     "Message", "ContractAddressChange"}
ResponseCodes ==
    {"ContractFormation", "AssetCreation", "Settlement", "Vote",
     "BallotCounted", "Result", "Freeze", "Thaw", "Confiscation",
     "Reconciliation", "Rejection", "Message"}

\* C14: IsIncomingMessageType is true exactly for the tokenized txs with a
\* request action code (Message and AddressChange among them),
\* IsOutgoingMessageType exactly for those with a response action code
\* (Message among them); a tx with no tokenized message is neither.
C14_ClassificationMatchesCodes ==
    /\ result.fn = "IsIncomingMessageType"
          => (result.value <=> (arg.MsgProto # NoMsg /\ arg.MsgProto \in RequestCodes))
    /\ result.fn = "IsOutgoingMessageType"
          => (result.value <=> (arg.MsgProto # NoMsg /\ arg.MsgProto \in ResponseCodes))

\* The output indexes (from 0) ParseOutputs is to keep: non-zero value and a
\* pay-to locking script
KeptIndexes(tx) ==
    {n \in 0 .. (Len(tx.TxOut) - 1) :
        tx.TxOut[n + 1].Value # 0 /\ tx.TxOut[n + 1].PkScript \in PayToScripts}

\* C15: when ParseOutputs succeeds, Outputs holds exactly the outputs with a
\* non-zero value and a pay-to locking script, in their order in the tx, each
\* with its output index, value and address; no output of value zero is ever
\* in Outputs.
C15_ParseOutputsKeepsPaidOutputs ==
    result.fn = "ParseOutputs" =>
        LET outs == result.value.Outputs IN
        /\ \A i \in DOMAIN outs : outs[i].Value # 0
        /\ ~result.value.err =>
              /\ {outs[i].Index : i \in DOMAIN outs} = KeptIndexes(arg)
              /\ \A i, j \in DOMAIN outs : i < j => outs[i].Index < outs[j].Index
              /\ \A i \in DOMAIN outs :
                    /\ outs[i].Value = arg.TxOut[outs[i].Index + 1].Value
                    /\ outs[i].Address = arg.TxOut[outs[i].Index + 1].PkScript

\* ParseOutputs kept two outputs of a tx and dropped a pay-to output of value
\* zero that stands between them.
C15_Witness ==
    /\ result.fn = "ParseOutputs" /\ ~result.value.err
    /\ Len(arg.TxOut) = 3 /\ Len(result.value.Outputs) = 2
    /\ arg.TxOut[2].Value = 0 /\ arg.TxOut[2].PkScript \in PayToScripts
    /\ result.value.Outputs[2].Index = 2

\* C16: for every address variant on MainNet and TestNet, decoding the text
\* a.String() succeeds and returns an address of the same variant, network
\* and payload; the text is the Base58 form of the type byte, the payload and
\* the first four checksum bytes.
C16_AddressRoundTrip ==
    /\ result.fn = "String"
          => result.value = Base58(bytes(arg) \o SubSeq(DoubleSha256(bytes(arg)), 1, 4))
    /\ result.fn = "DecodeAddress" => result.value = arg

\* The round trip of the variants other than multi-PKH
AddressRoundTripButMultiPKH ==
    (result.fn = "DecodeAddress" /\ arg.variant # "MultiPKH") => result.value = arg

\* C17: decoding the serialized bytes of an asset payload succeeds, consumes
\* all of them and yields a value equal to the original, and serializing the
\* decoded value again yields the same bytes.
C17_PayloadRoundTrip ==
    /\ result.fn = "write"
          => /\ ~result.value.err
             /\ result.value.n = Len(result.data)
             /\ result.value.unread = 0
             /\ result.value.m = arg
    /\ result.fn = "serialize again"
          => /\ ~result.value.err
             /\ result.value.bytes = result.data

\* The round trip of the bytes, and of the coupons whose trading restriction
\* has its five bytes
PayloadBytesRoundTrip ==
    /\ result.fn = "write"
          => /\ ~result.value.err
             /\ result.value.n = Len(result.data)
             /\ result.value.unread = 0
             /\ Len(arg.TradingRestriction) = 5 => result.value.m = arg
    /\ result.fn = "serialize again"
          => /\ ~result.value.err
             /\ result.value.bytes = result.data

\* The addresses a freeze froze: the holders its quantities name; a full
\* freeze names the contract and no holder
FrozenAddresses(freezeTx) ==
    IF IsFullFreeze(freezeTx) THEN {}
    ELSE {freezeTx.Outputs[freezeTx.Quantities[i].Index + 1].Address :
             i \in DOMAIN freezeTx.Quantities}

\* The addresses a response notifies: its outputs but the change and the fee
Notified(resp) ==
    {resp.Outputs[i].Address : i \in 1 .. (Len(resp.Outputs) - 2)}

\* C18: a thaw order sent by the administration or the operator of the
\* contract that names a freeze tx held in the TxCache is answered with a
\* Thaw that notifies exactly the addresses the freeze froze.
C18_ThawOrderAnswered ==
    (/\ result.fn = "OrderRequest"
     /\ arg.order.ComplianceAction = "Thaw"
     /\ IsOperator(arg.contract, arg.order.sender)
     /\ arg.freezeTx.exists
     /\ (arg.freezeTx.AssetCode # ZeroAssetCode \/ IsFullFreeze(arg.freezeTx)))
        => /\ result.value.out = "Success"
           /\ result.value.resp.kind = "Thaw"
           /\ Notified(result.value.resp) = FrozenAddresses(arg.freezeTx)

\* The sum of the balances of the holders in S
RECURSIVE SumBalances(_, _)
SumBalances(balances, S) ==
    IF S = {} THEN 0
    ELSE LET a == CHOOSE x \in S : TRUE IN
         balances[a] + SumBalances(balances, S \ {a})

\* The target holders and the deposit holder of an order
TargetsAndDeposit(order) ==
    {order.TargetAddresses[i].Address : i \in DOMAIN order.TargetAddresses}
    \union {order.DepositAddress}

\* C19: after ConfiscationResponse commits, the balances of the target
\* holders and the deposit holder add up to what they added up to before the
\* order, for every list of targets.
C19_ConfiscationConserves ==
    result.fn = "ConfiscationResponse" =>
        SumBalances(result.value, TargetsAndDeposit(arg.order))
            = SumBalances(arg.balances, TargetsAndDeposit(arg.order))

\* The sum of the quantities of the dispersions that name output index n
RECURSIVE DispersedTo(_, _)
DispersedTo(dispersions, n) ==
    IF dispersions = <<>> THEN 0
    ELSE (IF Head(dispersions).Index = n THEN Head(dispersions).Quantity ELSE 0)
         + DispersedTo(Tail(dispersions), n)

\* C20: a reconciliation order that passes the target checks is answered
\* without indexing outside the target list, and the output of every target
\* carries the quantities of the bitcoin dispersions that name it.
C20_DispersionsPaid ==
    (/\ result.fn = "OrderRequest"
     /\ arg.order.ComplianceAction = "Reconciliation"
     /\ ReconcileTargets(arg.balances, arg.order.TargetAddresses, 1, <<>>).out = "OK")
        => /\ result.value.out = "Success"
           /\ \A i \in DOMAIN arg.order.TargetAddresses :
                 result.value.resp.Outputs[i].Value
                    = DispersedTo(arg.order.BitcoinDispersions, i - 1)

\* The sum of the finalized balances of the holdings hs of the parties in S
RECURSIVE SumFinalized(_, _)
SumFinalized(hs, S) ==
    IF S = {} THEN 0
    ELSE LET p == CHOOSE x \in S : TRUE IN
         hs[p].FinalizedBalance + SumFinalized(hs, S \ {p})

\* C21: after any sequence of committed AssetCreation responses the finalized
\* balances of the holdings of an asset add up to its TokenQty.
C21_BalancesSumToTokenQty ==
    \A a \in AssetIdx :
        assets[a].exists => SumFinalized(holdings[a], Senders) = assets[a].TokenQty

\* C22: whenever a commit decreases the TokenQty of an asset by d, the
\* finalized balance of the administration holding it is taken from is at
\* least d; and a modification that reduces TokenQty by more than the
\* administration holding can cover is rejected with InsufficientQuantity.
C22_DecreaseNeverUnderflows ==
    [][/\ \A a \in AssetIdx :
            (assets[a].exists /\ assets'[a].TokenQty < assets[a].TokenQty)
               => holdings[a][ct.AdminAddress].FinalizedBalance
                     >= assets[a].TokenQty - assets'[a].TokenQty
       /\ \A m \in ValidModifications :
            (/\ ModificationAnswer(m).out \in {"Success", "InsufficientQuantity"}
             /\ \E i \in DOMAIN m.Amendments :
                   /\ m.Amendments[i].field = "TokenQty"
                   /\ m.Amendments[i].value < assets[m.AssetCode].TokenQty
                   /\ ~CanDebit(AdminHolding(m),
                                assets[m.AssetCode].TokenQty - m.Amendments[i].value))
               => ModificationAnswer(m).out = "InsufficientQuantity"]_vars

\* ------------------------------------------------------- membership assets
\* Definitions and modifications of membership assets, with up to MaxPending
\* responses broadcast and not yet seen: a response is seen when the node
\* reports its tx, which is after further requests can have been handled.
MaxPending == 2

MemberDefinitionMsgs ==
    {[kind |-> "Definition", RejectCode |-> "OK", sender |-> AdminAddr,
      TokenQty |-> 1, permitted |-> AssetFields,
      proposalPermitted |-> {}, VotingSystemsAllowed |-> NoVotingSystems,
      AssetType |-> tc[1], MembershipClass |-> tc[2]] :
        tc \in {<<"COU", NoClass>>, <<"MEM", "User">>,
                <<"MEM", "Owner">>, <<"MEM", "Administrator">>}}

MemberModificationMsgs ==
    {[kind |-> "Modification", RejectCode |-> "OK", sender |-> AdminAddr,
      AssetCode |-> a, AssetRevision |-> r, RefTxID |-> NoTx,
      Amendments |-> <<am>>] :
        a \in AssetIdx, r \in 0 .. MaxRevision,
        am \in {[field |-> "MembershipClass", value |-> "Owner"],
                [field |-> "AssetType", value |-> "MEM"],
                [field |-> "TokenQty", value |-> 1]}}

\* The first ContractOffer of a contract with any number of assets.  Its
\* permissions allow an amendment of RestrictedQtyAssets by a proposal of the
\* administration under voting system 0 of two, and none without a proposal.
MemberOffer ==
    [kind |-> "Offer", RejectCode |-> "OK", sender |-> AdminAddr,
     operator |-> OperatorAddr, MasterAddress |-> MasterAddr,
     RestrictedQtyAssets |-> 0, ContractExpiration |-> 0, permitted |-> {},
     proposalPermitted |-> {<<"RestrictedQtyAssets", 0>>},
     VotingSystemsAllowed |-> [fld \in AmendableFields |-> <<TRUE, FALSE>>],
     AdminIdentityCertificates |-> <<>>]

OfferMember ==
    LET r == OfferRequest(ct, now, MemberOffer) IN
    /\ RespondWithin(r, MaxPending)
    /\ cf' = IF r.out = "Success" THEN r.resp ELSE cf
    /\ UNCHANGED <<ct, assets, holdings>>

DefineMember(m) ==
    LET r == DefinitionRequest(ct, assets, now, m) IN
    /\ r.out = "Success" => r.resp.AssetCode \in AssetIdx
    /\ RespondWithin(r, MaxPending)
    /\ UNCHANGED <<ct, cf, assets, holdings>>

ModifyMember(m) ==
    LET h == IF ct.exists THEN holdings[m.AssetCode][ct.AdminAddress] ELSE ZeroHolding
        r == ModificationRequest(ct, assets, h, now, Len(responses) + 1, m) IN
    /\ RespondWithin(r, MaxPending)
    /\ holdings' = IF r.out = "Success"
                      THEN [holdings EXCEPT ![m.AssetCode][ct.AdminAddress] = r.holding]
                      ELSE holdings
    /\ UNCHANGED <<ct, cf, assets>>

MembershipNext ==
    \/ OfferMember
    \/ \E m \in MemberDefinitionMsgs : DefineMember(m)
    \/ \E m \in MemberModificationMsgs : ModifyMember(m)
    \/ CommitNext
    \/ \E n \in 1 .. MaxResponses : Replay(n)

MembershipSpec == Init /\ [][MembershipNext]_vars

\* The assets of type MEM whose MembershipClass is Owner or Administrator
AdminMemberAssets ==
    {a \in AssetIdx : /\ assets[a].exists
                      /\ assets[a].AssetType = "MEM"
                      /\ assets[a].MembershipClass \in AdminClasses}

\* C23: after every commit a contract has at most one asset of type MEM whose
\* MembershipClass is Owner or Administrator, and the AdminMemberAsset of the
\* contract names it.
C23_OneAdminMemberAsset ==
    ct.exists => /\ Cardinality(AdminMemberAssets) <= 1
                 /\ AdminMemberAssets \subseteq ct.AdminMemberAsset

\* ------------------------------------------------------------ TxRepository
\* The tx ids of a block are written as the sequence of the ids; the data of
\* a file is modelled by that sequence (each id is chainhash.HashSize bytes).
MaxRepoTxs == 2
RepoTxIds == 1 .. MaxRepoTxs

\* The lists of tx ids a caller passes to SetBlock: ids of a block, each once
RepoTxLists ==
    {<<>>} \cup {<<t>> : t \in RepoTxIds}
           \cup {<<tu[1], tu[2]>> :
                    tu \in {x \in RepoTxIds \X RepoTxIds : x[1] # x[2]}}

Block(txids) == [found |-> TRUE, data |-> txids]

\* The tx ids of data, in order
Ids(data) == {data[i] : i \in DOMAIN data}

\* Add without the check for an already existing tx id
AddAlways(st, txid, height) ==
    LET path == buildPath(height) IN
    IF ~st[path].found
       THEN [ret |-> TRUE, store |-> [st EXCEPT ![path] = Block(<<txid>>)]]
       ELSE [ret |-> TRUE,
             store |-> [st EXCEPT ![path] = Block(Append(st[path].data, txid))]]

\* TxRepository.Add, between Lock and Unlock
Add(st, txid, height) ==
    LET path == buildPath(height) IN
    IF ~st[path].found
       THEN [ret |-> TRUE, store |-> [st EXCEPT ![path] = Block(<<txid>>)]]
    ELSE IF \E i \in DOMAIN st[path].data : st[path].data[i] = txid
       THEN [ret |-> FALSE, store |-> st]
    ELSE [ret |-> TRUE,
          store |-> [st EXCEPT ![path] = Block(Append(st[path].data, txid))]]

\* TxRepository.Contains, between Lock and Unlock
Contains(st, txid, height) ==
    LET path == buildPath(height) IN
    IF ~st[path].found THEN FALSE
    ELSE \E i \in DOMAIN st[path].data : st[path].data[i] = txid

\* TxRepository.GetBlock after Lock: the hashes it returns
GetBlock(st, height) ==
    LET path == buildPath(height) IN
    IF ~st[path].found THEN <<>> ELSE st[path].data

\* TxRepository.writeBlock
writeBlock(st, txids, height) == [st EXCEPT ![buildPath(height)] = Block(txids)]

\* TxRepository.RemoveBlock before its Unlock
RemoveBlock(st, height) == [st EXCEPT ![buildPath(height)] = NotFound]

\* TxRepository.SetBlock, between Lock and Unlock
SetBlock(st, txids, height) ==
    IF Len(txids) > 0 THEN writeBlock(st, txids, height)
    ELSE [st EXCEPT ![buildPath(height)] = NotFound]

\* TxRepository.FinalizeBlock before its deferred Unlock: the block of the
\* height is rewritten or removed and, with updateUnconfirmed, the
\* unconfirmed block as well
FinalizeBlock(st, unconfirmed, updateUnconfirmed, txids, height) ==
    LET st1 == IF Len(txids) > 0 THEN writeBlock(st, txids, height)
               ELSE [st EXCEPT ![buildPath(height)] = NotFound] IN
    IF ~updateUnconfirmed THEN st1
    ELSE IF Len(unconfirmed) > 0 THEN writeBlock(st1, unconfirmed, -1)
    ELSE [st1 EXCEPT ![buildPath(-1)] = NotFound]

\* TxRepository.ClearBlock, between Lock and Unlock
ClearBlock(st, height) == [st EXCEPT ![buildPath(height)] = NotFound]

\* The methods that start with repo.mutex.Lock()
LockingOps == {"Add", "Contains", "GetBlock", "SetBlock", "ClearBlock"}

\* The methods GetBlock is documented to be followed by to release its lock
ReleasingOps == {"RemoveBlock", "SetBlock", "ReleaseBlock"}

\* The methods a caller whose GetBlock returned calls next: the documented
\* ones and FinalizeBlock, which "must only be called after GetBlock"
FollowingOps == ReleasingOps \cup {"FinalizeBlock"}

\* Goroutine g calls a method.  A goroutine whose GetBlock returned calls one
\* of the methods that follow a GetBlock; any other goroutine calls one of
\* the methods that lock.
CallRepo(g, c) ==
    /\ pc[g].at = "idle"
    /\ c.op \in (IF pc[g].holds THEN FollowingOps ELSE LockingOps)
    /\ pc' = [pc EXCEPT ![g] =
                [op |-> c.op, at |-> IF c.op \in LockingOps THEN "Lock" ELSE "body",
                 holds |-> pc[g].holds, txid |-> c.txid, txids |-> c.txids,
                 height |-> c.height, unconfirmed |-> c.unconfirmed,
                 updateUnconfirmed |-> c.updateUnconfirmed]]
    /\ UNCHANGED <<store, mutex>>
    /\ UNCHANGED <<agentVars, listenerVars, callVars>>
    /\ UNCHANGED <<KeyStore, lock, votes, transfers, jobs, emitted, TxCache>>

\* repo.mutex.Lock() of goroutine g returns: the mutex was not locked
LockRepo(g) ==
    /\ pc[g].at = "Lock"
    /\ ~mutex
    /\ mutex' = TRUE
    /\ pc' = [pc EXCEPT ![g].at = "body"]
    /\ UNCHANGED store
    /\ UNCHANGED <<agentVars, listenerVars, callVars>>
    /\ UNCHANGED <<KeyStore, lock, votes, transfers, jobs, emitted, TxCache>>

\* The store after the body of the method goroutine g is in
RepoStore(c) ==
    CASE c.op = "Add" -> Add(store, c.txid, c.height).store
      [] c.op = "SetBlock" -> SetBlock(store, c.txids, c.height)
      [] c.op = "RemoveBlock" -> RemoveBlock(store, c.height)
      [] c.op = "ClearBlock" -> ClearBlock(store, c.height)
      [] c.op = "FinalizeBlock" ->
            FinalizeBlock(store, c.unconfirmed, c.updateUnconfirmed, c.txids,
                          c.height)
      [] OTHER -> store

\* What the method goroutine g is in returns
RepoReturn(c) ==
    CASE c.op = "Add" -> <<Add(store, c.txid, c.height).ret>>
      [] c.op = "Contains" -> <<Contains(store, c.txid, c.height)>>
      [] c.op = "GetBlock" -> GetBlock(store, c.height)
      [] OTHER -> <<>>

\* The method goroutine g is in runs and returns.  Every method but GetBlock
\* unlocks the mutex when it returns; GetBlock returns with the mutex locked.
ReturnRepo(g) ==
    /\ pc[g].at = "body"
    /\ pc[g].op \in LockingOps \cup FollowingOps
    /\ store' = RepoStore(pc[g])
    /\ mutex' = (pc[g].op = "GetBlock")
    /\ pc' = [pc EXCEPT ![g] = [op |-> pc[g].op, at |-> "idle",
                                 holds |-> pc[g].op = "GetBlock",
                                 ret |-> RepoReturn(pc[g])]]
    /\ UNCHANGED <<agentVars, listenerVars, callVars>>
    /\ UNCHANGED <<KeyStore, lock, votes, transfers, jobs, emitted, TxCache>>

StepRepo(g) == LockRepo(g) \/ ReturnRepo(g)

\* The calls of a goroutine; an argument a method does not have is left at its
\* first value.
RepoCalls ==
    {c \in [op : LockingOps \cup FollowingOps, txid : RepoTxIds,
            txids : RepoTxLists, height : Heights,
            unconfirmed : RepoTxLists, updateUnconfirmed : BOOLEAN] :
        /\ c.op \notin {"Add", "Contains"} => c.txid = 1
        /\ c.op \notin {"SetBlock", "FinalizeBlock"} => c.txids = <<>>
        /\ c.op # "FinalizeBlock" => ~c.updateUnconfirmed
        /\ ~c.updateUnconfirmed => c.unconfirmed = <<>>}

TxRepoNext ==
    \/ \E g \in Goroutines, c \in RepoCalls : CallRepo(g, c)
    \/ \E g \in Goroutines : LockRepo(g)
    \/ \E g \in Goroutines : ReturnRepo(g)

TxRepoSpec == Init /\ [][TxRepoNext]_vars

\* Every goroutine that can take a step takes one
TxRepoFairSpec == TxRepoSpec /\ \A g \in Goroutines : WF_vars(StepRepo(g))

\* C24: a RemoveBlock, SetBlock or ReleaseBlock called by the goroutine whose
\* GetBlock returned completes, and when it has returned the mutex that
\* GetBlock locked is unlocked.
C24_BlockReleased ==
    \A g \in Goroutines :
        (pc[g].holds /\ pc[g].at # "idle" /\ pc[g].op \in ReleasingOps)
            ~> (pc[g].at = "idle" /\ ~pc[g].holds)

\* The tx ids stored for a path, in order; none when nothing is stored
StoredIds(st, path) == IF st[path].found THEN st[path].data ELSE <<>>

NoDuplicate(data) ==
    \A i \in DOMAIN data : \A j \in DOMAIN data : data[i] = data[j] => i = j

\* C25: Add(txid, h) returns true exactly when txid was not stored for h, and
\* then the block of h is the stored ids followed by txid; an Add that
\* returns false leaves the store unchanged; the block has no duplicate id
\* after the Add if it had none before, and Contains(txid, h) is true.
C25_AddOnce ==
    [][\A g \in Goroutines :
          (pc[g].at = "body" /\ pc[g].op = "Add" /\ pc'[g].at = "idle")
             => LET path == buildPath(pc[g].height)
                    before == StoredIds(store, path)
                IN
                /\ pc'[g].ret = <<pc[g].txid \notin Ids(before)>>
                /\ pc'[g].ret = <<TRUE>>
                      => store' = [store EXCEPT
                                     ![path] = Block(Append(before, pc[g].txid))]
                /\ pc'[g].ret = <<FALSE>> => store' = store
                /\ NoDuplicate(before) => NoDuplicate(StoredIds(store', path))
                /\ Contains(store', pc[g].txid, pc[g].height)]_vars

\* An Add of a stored tx id returned false and a block holds two tx ids
C25_RepeatedAdd ==
    /\ \E g \in Goroutines :
          pc[g].op = "Add" /\ pc[g].at = "idle" /\ pc[g].ret = <<FALSE>>
    /\ \E h \in Heights : Len(StoredIds(store, buildPath(h))) = 2

\* ------------------------------------------------------------------ wallet
\* The methods of Wallet have the receiver (w Wallet): a call copies the
\* Wallet, so w.lock in the method is the copy of the lock made by the call
\* and w.KeyStore is the pointer to the one shared KeyStore.
MaxKeys == 2
WalletKeys == 1 .. MaxKeys

\* The keys Load reads from the database
SavedKeys == {1}

\* The methods that take w.lock.Lock() and those that take w.lock.RLock()
WriteOps == {"Add", "Remove", "Register", "Load"}
ReadOps == {"Get", "List", "ListAll", "Save"}

\* sync.RWMutex: Lock and RLock can return, and the mutex after them
CanLock(l, op) ==
    IF op \in WriteOps THEN ~l.writer /\ l.readers = 0 ELSE ~l.writer

Locked(l, op) ==
    IF op \in WriteOps THEN [l EXCEPT !.writer = TRUE]
    ELSE [l EXCEPT !.readers = @ + 1]

\* The KeyStore after the method op with the key
KeyStoreAfter(ks, op, key) ==
    CASE op \in {"Add", "Register"} -> ks \cup {key}
      [] op = "Remove" -> ks \ {key}
      [] op = "Load" -> ks \cup SavedKeys
      [] OTHER -> ks

\* Goroutine g calls a method of the wallet: the receiver is copied
CallWallet(g, op, key) ==
    /\ pc[g].at = "idle"
    /\ pc' = [pc EXCEPT ![g] = [op |-> op, at |-> "Lock", holds |-> FALSE,
                                 lock |-> lock, key |-> key]]
    /\ UNCHANGED <<KeyStore, lock>>
    /\ UNCHANGED <<agentVars, listenerVars, callVars>>
    /\ UNCHANGED <<store, mutex, votes, transfers, jobs, emitted, TxCache>>

\* w.lock.Lock() or w.lock.RLock() of the method returns
LockWallet(g) ==
    /\ pc[g].at = "Lock"
    /\ CanLock(pc[g].lock, pc[g].op)
    /\ pc' = [pc EXCEPT ![g].lock = Locked(pc[g].lock, pc[g].op),
                        ![g].at = "KeyStore"]
    /\ UNCHANGED <<KeyStore, lock>>
    /\ UNCHANGED <<agentVars, listenerVars, callVars>>
    /\ UNCHANGED <<store, mutex, votes, transfers, jobs, emitted, TxCache>>

\* The method of the KeyStore the wallet method calls has run; the deferred
\* unlock releases the copy of the lock and the wallet method returns.
ReturnWallet(g) ==
    /\ pc[g].at = "KeyStore"
    /\ KeyStore' = KeyStoreAfter(KeyStore, pc[g].op, pc[g].key)
    /\ pc' = [pc EXCEPT ![g] = IdleCall]
    /\ UNCHANGED lock
    /\ UNCHANGED <<agentVars, listenerVars, callVars>>
    /\ UNCHANGED <<store, mutex, votes, transfers, jobs, emitted, TxCache>>

WalletNext ==
    \/ \E g \in Goroutines, op \in WriteOps \cup ReadOps, key \in WalletKeys :
            CallWallet(g, op, key)
    \/ \E g \in Goroutines : LockWallet(g)
    \/ \E g \in Goroutines : ReturnWallet(g)

WalletSpec == Init /\ [][WalletNext]_vars

\* C26: while a goroutine is in a write operation of the wallet on the
\* KeyStore, no other goroutine is in an operation on the KeyStore.
C26_WritersExclusive ==
    \A g \in Goroutines : \A o \in Goroutines \ {g} :
        ~(/\ pc[g].at = "KeyStore" /\ pc[g].op \in WriteOps
          /\ pc[o].at = "KeyStore")

\* ----------------------------------------------------------- signature hash
SigHashAll == 1
SigHashNone == 2
SigHashSingle == 3
SigHashAnyOneCanPay == 128
SigHashForkID == 64
sigHashMask == 31

\* x & bit for a single bit, x & mask for a mask 2^k - 1, x | bit
AndBit(x, bit) == IF (x \div bit) % 2 = 1 THEN bit ELSE 0
AndMask(x, mask) == x % (mask + 1)
OrBit(x, bit) == IF AndBit(x, bit) = 0 THEN x + bit ELSE x

\* hashType & SigHashSingle and hashType & SigHashNone
AndSingle(x) == x % 4
AndNone(x) == AndBit(x, 2)

\* The cache with no hash calculated (nil slices)
NoHash == <<>>
EmptySigHashCache ==
    [hashPrevOuts |-> NoHash, hashSequence |-> NoHash, hashOutputs |-> NoHash]

\* A Clear that leaves the calculated hashes in the cache
ClearNothing(shc) == shc

\* SigHashCache.Clear
Clear(shc) == EmptySigHashCache

\* wire.WriteVarBytes for fewer than 0xfd bytes
WriteVarBytes(b) == <<Len(b)>> \o b

\* TxOut.Serialize: the value in 8 bytes and the locking script
SerializeTxOut(out) == writeUint(out.Value, 8) \o WriteVarBytes(out.PkScript)

RECURSIVE PrevOutsBytes(_)
PrevOutsBytes(ins) ==
    IF ins = <<>> THEN <<>>
    ELSE Head(ins).Hash \o writeUint(Head(ins).Index, 4) \o PrevOutsBytes(Tail(ins))

RECURSIVE SequenceBytes(_)
SequenceBytes(ins) ==
    IF ins = <<>> THEN <<>>
    ELSE writeUint(Head(ins).Sequence, 4) \o SequenceBytes(Tail(ins))

RECURSIVE OutputsBytes(_)
OutputsBytes(outs) ==
    IF outs = <<>> THEN <<>>
    ELSE SerializeTxOut(Head(outs)) \o OutputsBytes(Tail(outs))

\* SigHashCache.HashPrevOuts, HashSequence, HashOutputs: the hash returned
\* and the cache after the call
HashPrevOuts(shc, tx) ==
    IF shc.hashPrevOuts # NoHash THEN [hash |-> shc.hashPrevOuts, shc |-> shc]
    ELSE LET h == DoubleSha256(PrevOutsBytes(tx.TxIn)) IN
         [hash |-> h, shc |-> [shc EXCEPT !.hashPrevOuts = h]]

HashSequence(shc, tx) ==
    IF shc.hashSequence # NoHash THEN [hash |-> shc.hashSequence, shc |-> shc]
    ELSE LET h == DoubleSha256(SequenceBytes(tx.TxIn)) IN
         [hash |-> h, shc |-> [shc EXCEPT !.hashSequence = h]]

HashOutputs(shc, tx) ==
    IF shc.hashOutputs # NoHash THEN [hash |-> shc.hashOutputs, shc |-> shc]
    ELSE LET h == DoubleSha256(OutputsBytes(tx.TxOut)) IN
         [hash |-> h, shc |-> [shc EXCEPT !.hashOutputs = h]]

\* signatureHash: the digest (NoHash for nil) and the cache after the call.
\* index counts the inputs from 0.
signatureHash(tx, index, lockScript, value, hashType, hashCache) ==
    IF index > Len(tx.TxIn) - 1 THEN [digest |-> NoHash, shc |-> hashCache]
    ELSE
    LET zeroHash == Zeros(Len(DoubleSha256(<<>>)))   \* as long as a digest
        in == tx.TxIn[index + 1]
        p == IF AndBit(hashType, SigHashAnyOneCanPay) = 0
                THEN HashPrevOuts(hashCache, tx)
                ELSE [hash |-> zeroHash, shc |-> hashCache]
        s == IF /\ AndBit(hashType, SigHashAnyOneCanPay) = 0
                /\ AndMask(hashType, sigHashMask) # SigHashSingle
                /\ AndMask(hashType, sigHashMask) # SigHashNone
                THEN HashSequence(p.shc, tx)
                ELSE [hash |-> zeroHash, shc |-> p.shc]
        o == IF /\ AndSingle(hashType) # SigHashSingle
                /\ AndNone(hashType) # SigHashNone
                THEN HashOutputs(s.shc, tx)
             ELSE IF /\ AndMask(hashType, sigHashMask) = SigHashSingle
                     /\ index < Len(tx.TxOut)
                THEN [hash |-> DoubleSha256(SerializeTxOut(tx.TxOut[index + 1])),
                      shc |-> s.shc]
             ELSE [hash |-> zeroHash, shc |-> s.shc]
        buf == Concat(<<writeUint(tx.Version, 4), p.hash, s.hash,
                        in.Hash, writeUint(in.Index, 4),
                        WriteVarBytes(lockScript), writeUint(value, 8),
                        writeUint(in.Sequence, 4), o.hash,
                        writeUint(tx.LockTime, 4),
                        writeUint(OrBit(hashType, SigHashForkID), 4)>>)
    IN [digest |-> DoubleSha256(buf), shc |-> o.shc]

\* The transactions signed: one or two inputs and up to two outputs
MaxSigInputs == 2
MaxSigOutputs == 2
SigInputs ==
    {[Hash |-> DoubleSha256(<<b>>), Index |-> b, Sequence |-> b - 1] :
        b \in {1, 2}}
SigOutputs == {[Value |-> v, PkScript |-> <<v, 7>>] : v \in {1, 2}}
SigTxs ==
    {[Version |-> 1, TxIn |-> ins, TxOut |-> outs, LockTime |-> 0] :
        ins \in UNION {[1 .. n -> SigInputs] : n \in 1 .. MaxSigInputs},
        outs \in UNION {[1 .. n -> SigOutputs] : n \in 0 .. MaxSigOutputs}}
SigHashTypes ==
    {b + f + a : b \in {SigHashAll, SigHashNone, SigHashSingle},
                 f \in {0, SigHashForkID}, a \in {0, SigHashAnyOneCanPay}}
\* The locking script and the value of the output an input spends
SigSpent == [lockScript |-> <<9>>, value |-> 5]

SigHashInit ==
    /\ now = 0
    /\ ct = NoContract
    /\ cf = NoFormation
    /\ assets = [a \in AssetIdx |-> NoAsset]
    /\ holdings = [a \in AssetIdx |-> [p \in Senders |-> ZeroHolding]]
    /\ responses = <<>>
    /\ committed = 0
    /\ recent = NoneRecent
    /\ ListenerInit
    /\ ProcInit
    /\ arg \in {[tx |-> t, hashCache |-> EmptySigHashCache] : t \in SigTxs}
    /\ result = NoCall

\* An input of the transaction is signed with the cache of the earlier calls
CallSignatureHash(index, hashType) ==
    LET r == signatureHash(arg.tx, index, SigSpent.lockScript, SigSpent.value, hashType,
                           arg.hashCache) IN
    /\ arg' = [arg EXCEPT !.hashCache = r.shc]
    /\ result' = [fn |-> "signatureHash", index |-> index,
                  hashType |-> hashType, value |-> r.digest]
    /\ UNCHANGED <<agentVars, listenerVars, procVars>>

\* The inputs or outputs of the transaction change and the cache is cleared
ChangeAndClear(tx) ==
    /\ tx # arg.tx
    /\ arg' = [tx |-> tx, hashCache |-> Clear(arg.hashCache)]
    /\ result' = [fn |-> "Clear"]
    /\ UNCHANGED <<agentVars, listenerVars, procVars>>

SigHashNext ==
    \/ \E index \in 0 .. MaxSigInputs, hashType \in SigHashTypes :
            CallSignatureHash(index, hashType)
    \/ \E tx \in SigTxs : ChangeAndClear(tx)

SigHashSpec == SigHashInit /\ [][SigHashNext]_vars

\* The hashes of the cache are those of the transaction or not calculated
CacheOf(tx, shc) ==
    /\ shc.hashPrevOuts \in {NoHash, DoubleSha256(PrevOutsBytes(tx.TxIn))}
    /\ shc.hashSequence \in {NoHash, DoubleSha256(SequenceBytes(tx.TxIn))}
    /\ shc.hashOutputs \in {NoHash, DoubleSha256(OutputsBytes(tx.TxOut))}

\* C27: the digest signatureHash returned with the cache of the earlier calls
\* is the digest it returns with an empty cache, for every input index and
\* hash type; and the hashes in the cache, also after a change of the
\* transaction followed by Clear, are calculated from the transaction.
C27_CacheTransparent ==
    /\ result.fn = "signatureHash"
          => result.value = signatureHash(arg.tx, result.index, SigSpent.lockScript,
                                SigSpent.value, result.hashType,
                                EmptySigHashCache).digest
    /\ CacheOf(arg.tx, arg.hashCache)

\* The second input of a transaction with two inputs and two outputs was
\* signed with all three hashes in the cache
C27_SignedWithFilledCache ==
    /\ result.fn = "signatureHash"
    /\ result.value # NoHash
    /\ arg.hashCache.hashPrevOuts # NoHash
    /\ arg.hashCache.hashSequence # NoHash
    /\ arg.hashCache.hashOutputs # NoHash
    /\ Len(arg.tx.TxIn) = 2 /\ Len(arg.tx.TxOut) = 2
    /\ result.hashType = SigHashAll + SigHashForkID
    /\ result.index = 1

\* ---------------------------------------------------------------- scheduler
\* The jobs HandleInSync schedules for the stored votes and pending
\* transfers.  The Scheduler holds its jobs as a bag: scheduling a job twice
\* gives two copies of it.
MaxContracts == 2
ContractKeys == 1 .. MaxContracts
MaxVotes == 2
MaxTransfers == 2
MaxCopies == 2        \* most copies of one job the Scheduler holds

\* The stored votes: at most one per vote tx id; CompletedAt 0 is not complete
VoteRecords(id) ==
    {[contract |-> c, VoteTxId |-> id, CompletedAt |-> d, Expires |-> id - 1] :
        c \in ContractKeys, d \in {0, 1}}
VoteSets ==
    {vs \in SUBSET UNION {VoteRecords(id) : id \in 1 .. MaxVotes} :
        \A v \in vs : \A w \in vs : v.VoteTxId = w.VoteTxId => v = w}

\* The stored pending transfers: at most one per transfer tx id
TransferRecords(id) ==
    {[contract |-> c, TransferTxId |-> id, Timeout |-> id - 1] : c \in ContractKeys}
TransferSets ==
    {ts \in SUBSET UNION {TransferRecords(id) : id \in 1 .. MaxTransfers} :
        \A t \in ts : \A u \in ts : t.TransferTxId = u.TransferTxId => t = u}

NewVoteFinalizer(voteTx, at) == [kind |-> "VoteFinalizer", tx |-> voteTx, at |-> at]
NewTransferTimeout(transferTx, at) ==
    [kind |-> "TransferTimeout", tx |-> transferTx, at |-> at]

\* vote.List and transfer.List of a contract
ListVotes(vs, contract) == {v \in vs : v.contract = contract}
ListTransfers(ts, contract) == {t \in ts : t.contract = contract}

\* The vote loop of HandleInSync that schedules for completed votes as well
VoteFinalizersOfAll(keys, vs) ==
    UNION {{NewVoteFinalizer(v.VoteTxId, v.Expires) : v \in ListVotes(vs, key)} :
              key \in keys}

\* HandleInSync, "Schedule vote finalizers": the jobs of the loop over the keys
VoteFinalizers(keys, vs) ==
    UNION {{NewVoteFinalizer(v.VoteTxId, v.Expires) :
               v \in {w \in ListVotes(vs, key) : w.CompletedAt = 0}} :
              key \in keys}

\* HandleInSync, "Schedule pending transfer timeouts"
TransferTimeouts(keys, ts) ==
    UNION {{NewTransferTimeout(t.TransferTxId, t.Timeout) :
               t \in ListTransfers(ts, key)} :
              key \in keys}

\* Scheduler.ScheduleJob for each of the jobs
ScheduleJobs(js, new) == js (+) SetToBag(new)

\* Server.HandleInSync with the jobs it schedules on the first sync
SyncAndSchedule ==
    LET r == HandleInSync(ListenerState) IN
    /\ pendingRequests' = r.pendingRequests
    /\ unsafeRequests' = r.unsafeRequests
    /\ revertedTxs' = r.revertedTxs
    /\ inSync' = r.inSync
    /\ applied' = r.applied
    /\ note' = [type |-> "InSync", txid |-> 0, processed |-> FALSE]
    /\ jobs' = IF inSync THEN jobs
               ELSE ScheduleJobs(ScheduleJobs(jobs, VoteFinalizers(KeyStore, votes)),
                                 TransferTimeouts(KeyStore, transfers))
    /\ UNCHANGED <<seen, agentVars, callVars>>
    /\ UNCHANGED <<store, mutex, KeyStore, lock, pc, votes, transfers,
                   emitted, TxCache>>

\* The process stops and starts again (main): the Server is new and the
\* Scheduler is constructed without a job.  The stored votes and transfers
\* remain.  The package of the Scheduler is not part of the source: the jobs
\* it held are either lost with the process or, where it persists them, held
\* again after the start.
Restart ==
    /\ inSync
    /\ pendingRequests' = <<>>
    /\ unsafeRequests' = <<>>
    /\ revertedTxs' = <<>>
    /\ inSync' = FALSE
    /\ note' = NoNote
    /\ \E kept \in {EmptyBag, jobs} :
          /\ \A j \in BagToSet(kept) : CopiesIn(j, kept) < MaxCopies
          /\ jobs' = kept
    /\ UNCHANGED <<applied, seen, agentVars, callVars>>
    /\ UNCHANGED <<store, mutex, KeyStore, lock, pc, votes, transfers,
                   emitted, TxCache>>

SchedulerInit ==
    /\ now = 0
    /\ ct = NoContract
    /\ cf = NoFormation
    /\ assets = [a \in AssetIdx |-> NoAsset]
    /\ holdings = [a \in AssetIdx |-> [p \in Senders |-> ZeroHolding]]
    /\ responses = <<>>
    /\ committed = 0
    /\ recent = NoneRecent
    /\ ListenerInit
    /\ arg = NoCall /\ result = NoCall
    /\ store = [p \in Paths |-> NotFound]
    /\ mutex = FALSE
    /\ lock = Unlocked
    /\ pc = [g \in Goroutines |-> IdleCall]
    /\ KeyStore \in SUBSET ContractKeys
    /\ votes \in VoteSets
    /\ transfers \in TransferSets
    /\ jobs = EmptyBag
    /\ emitted = <<>>
    /\ TxCache = EmptyMap

SchedulerNext ==
    \/ SyncAndSchedule
    \/ Restart

SchedulerSpec == SchedulerInit /\ [][SchedulerNext]_vars

\* The jobs due for the stored votes and transfers of the wallet's contracts
DueJobs ==
    {NewVoteFinalizer(v.VoteTxId, v.Expires) :
        v \in {w \in votes : w.contract \in KeyStore /\ w.CompletedAt = 0}}
    \cup {NewTransferTimeout(t.TransferTxId, t.Timeout) :
            t \in {u \in transfers : u.contract \in KeyStore}}

ProposedByResult(ref) == StoredTxs[ref].ProposedAmendments

ProposalVotes ==
    {[found |-> TRUE, contract |-> c, VoteTxId |-> 1, CompletedAt |-> d,
      Result |-> r, ProposedAmendments |-> pa, AssetCode |-> ac, Expires |-> 0,
      Type |-> 0, VoteSystem |-> 0] :
        c \in {ContractAddress, NewContractAddr}, d \in {0, 1}, r \in {"A", "R"},
        pa \in {<<>>, ProposedByResult("result1")}, ac \in {{}, {0}}}

ProposalVoteSets ==
    {v1 \cup v2 :
        v1 \in {{}} \cup {{v} : v \in ProposalVotes},
        v2 \in {{}} \cup
              {{[found |-> TRUE, contract |-> ContractAddress, VoteTxId |-> 2,
                 CompletedAt |-> 1, Result |-> "A",
                 ProposedAmendments |-> ProposedByResult("result2"),
                 AssetCode |-> {}, Expires |-> 0,
                 Type |-> ty, VoteSystem |-> sy]} :
                   ty \in {0, 1, 3}, sy \in {0, 1, 2}}}

ProposalMsgs ==
    {[kind |-> "Amendment", RejectCode |-> "OK", sender |-> OperatorAddr,
      ContractRevision |-> r, RefTxID |-> ref, Amendments |-> am,
      ChangeAdministrationAddress |-> FALSE, ChangeOperatorAddress |-> FALSE,
      cosigners |-> <<>>] :
        r \in 0 .. MaxRevision,
        ref \in {"result", "offer", "result1", "result2"},
        am \in {<<>>, ProposedByResult("result1"), ProposedByResult("result2"),
                <<ProposedByResult("result2")[2], ProposedByResult("result2")[1]>>,
                <<[field |-> "RestrictedQtyAssets", value |-> 0]>>}}

ProposalInit ==
    /\ now = 0
    /\ ct = NoContract
    /\ cf = NoFormation
    /\ assets = [a \in AssetIdx |-> NoAsset]
    /\ holdings = [a \in AssetIdx |-> [p \in Senders |-> ZeroHolding]]
    /\ responses = <<>>
    /\ committed = 0
    /\ recent = NoneRecent
    /\ ListenerInit
    /\ arg = NoCall /\ result = NoCall
    /\ store = [p \in Paths |-> NotFound]
    /\ mutex = FALSE
    /\ lock = Unlocked
    /\ pc = [g \in Goroutines |-> IdleCall]
    /\ KeyStore = {}
    /\ votes \in ProposalVoteSets
    /\ transfers = {}
    /\ jobs = EmptyBag
    /\ emitted = <<>>
    /\ TxCache = EmptyMap

ProposalNext ==
    \/ OfferMember
    \/ \E m \in ProposalMsgs : HandleAmendment(m)
    \/ CommitNext

ProposalSpec == ProposalInit /\ [][ProposalNext]_vars

\* The referenced tx is a Result whose vote is a stored vote of the contract
\* that is complete, accepted, with proposed amendments, no asset vote, and
\* whose proposed amendments are those of the request, in order
ProposalAllows(m) ==
    /\ m.RefTxID \in DOMAIN StoredTxs
    /\ StoredTxs[m.RefTxID].MsgProto = "Result"
    /\ \E v \in votes :
          /\ v.contract = ContractAddress
          /\ v.VoteTxId = StoredTxs[m.RefTxID].VoteTxId
          /\ v.CompletedAt # 0
          /\ v.Result = "A"
          /\ v.ProposedAmendments # <<>>
          /\ v.AssetCode = {}
    /\ StoredTxs[m.RefTxID].ProposedAmendments = m.Amendments

\* C30: a ContractAmendment that names a vote result is accepted only if the
\* result allows its amendments; in every other case the request is
\* rejected and no ContractFormation is produced.
C30_ProposalChecked ==
    \A m \in ProposalMsgs :
        /\ AmendmentAnswer(m).out = "Success" => ProposalAllows(m)
        /\ (ct.exists /\ ~ProposalAllows(m))
              => /\ AmendmentAnswer(m).out \notin {"Success", "Error"}
                 /\ AmendmentAnswer(m).resp = NoResp

\* An amendment that names a vote result was accepted and committed while
\* vote 1 is a rejected vote: the amendments are those of the result of vote 2
C30_ProposedAmendmentAccepted ==
    /\ committed = 2
    /\ responses[2].request = "Amendment"
    /\ ct.Revision = 1
    /\ \E v \in votes : v.VoteTxId = 1 /\ v.Result = "R"

\* ------------------------------------------------------------------- C31
\* C31: a valid ContractAddressChange for a stored contract sets MovedTo only
\* when its first input is the contract's MasterAddress and its outputs pay
\* both the current and the new contract address, and then MovedTo is the new
\* address; in every other case it is rejected with TxMalformed and the
\* contract is unchanged.
C31_AddressChangeGuarded ==
    ct.exists =>
        \A m \in ValidAddressChanges :
            LET r == AddressChange(ct, m)
                allowed == /\ m.sender = ct.MasterAddress
                           /\ ContractAddress \in m.Outputs
                           /\ m.NewContractAddress \in m.Outputs
            IN IF allowed
                  THEN r = [ct |-> [ct EXCEPT !.MovedTo = m.NewContractAddress],
                            out |-> "Done"]
                  ELSE r = [ct |-> ct, out |-> "TxMalformed"]

\* an address change has moved the contract
C31_ContractMoved ==
    /\ ct.exists
    /\ ct.MovedTo = NewContractAddr
    /\ \E m \in ValidAddressChanges : AddressChange(ct, m).out = "TxMalformed"

\* ------------------------------------------------------------------- C32
\* C32: a request whose first input is not authorised is never answered with
\* a success response: a definition not sent by the administration address,
\* an amendment or modification sent by neither the administration nor the
\* operator address.  Once the checks before the sender check pass (valid
\* message, contract stored and not moved, for a definition not frozen and not
\* expired) the answer is the rejection NotAdministration for the definition
\* and NotOperator for the amendment and the modification.
C32_UnauthorisedRejected ==
    ct.exists =>
        /\ \A m \in DefinitionMsgs :
             m.sender # ct.AdminAddress =>
                /\ DefinitionAnswer(m).out # "Success"
                /\ (/\ m.RejectCode = "OK" /\ ct.MovedTo = NoAddr
                    /\ ct.FreezePeriod <= now
                    /\ (ct.ContractExpiration = 0 \/ ct.ContractExpiration >= now))
                       => DefinitionAnswer(m) = Reject("NotAdministration")
        /\ \A m \in AmendmentMsgs :
             m.sender \notin {ct.AdminAddress, ct.OperatorAddress} =>
                /\ AmendmentAnswer(m).out # "Success"
                /\ (m.RejectCode = "OK" /\ ct.MovedTo = NoAddr)
                       => AmendmentAnswer(m) = Reject("NotOperator")
        /\ \A m \in ModificationMsgs :
             m.sender \notin {ct.AdminAddress, ct.OperatorAddress} =>
                /\ ModificationAnswer(m).out # "Success"
                /\ (m.RejectCode = "OK" /\ ct.MovedTo = NoAddr)
                       => ModificationAnswer(m).out = "NotOperator"

\* A stored contract with an asset, not moved, not frozen: the operator's
\* definition is rejected with NotAdministration, a user's amendment and a
\* user's modification of the stored asset with NotOperator.
C32_UnauthorisedSenders ==
    /\ ct.exists /\ ct.MovedTo = NoAddr /\ ct.FreezePeriod <= now
    /\ Len(ct.AssetCodes) > 0
    /\ \E m \in ValidDefinitions :
         /\ m.sender = ct.OperatorAddress /\ m.sender # ct.AdminAddress
         /\ DefinitionAnswer(m) = Reject("NotAdministration")
    /\ \E m \in ValidAmendments :
         /\ m.sender = "user" /\ m.ContractRevision = ct.Revision
         /\ AmendmentAnswer(m) = Reject("NotOperator")
    /\ \E m \in ValidModifications :
         /\ m.sender = "user" /\ RetrieveAsset(assets, m.AssetCode).exists
         /\ ModificationAnswer(m).out = "NotOperator"

\* ------------------------------------------------- listener, counted calls
\* The listener with a count, for every tx id, of the HandleTx calls that
\* announced it and of the processTx calls it was passed to.  In the
\* specifications of this section seen[t] is that count record.
MaxAnnounced == 2     \* HandleTx calls for one tx id
MaxProcessed == 2     \* processTx calls counted for one tx id

\* cancelled: a cancel notification arrived for the tx after it was
\* announced and before it was passed to processTx
NoHistory == [announced |-> 0, processed |-> 0, cancelled |-> FALSE]

MsgTypes == {"Safe", "Confirm", "Cancel", "Unsafe", "Revert"}

\* The listener of the wire-tx version: HandleTxState differs from the
\* inspector-tx version in the safe case, which calls processTx on the pending
\* tx and leaves pendingRequests as it is.
HandleTxStateWire(s, msgType, txid) ==
    IF msgType = "Safe"
       THEN IF removeFromReverted(s.revertedTxs, txid).found
               THEN [s EXCEPT !.revertedTxs = removeFromReverted(@, txid).revertedTxs]
            ELSE IF txid \in Range(s.pendingRequests)
               THEN [s EXCEPT !.applied = processTx(@, txid), !.processed = TRUE]
            ELSE s
       ELSE HandleTxState(s, msgType, txid)

\* The count record of tx id txid after a notification that led to state r
CountedAfter(h, r, msgType) ==
    [announced |-> h.announced,
     processed |-> IF r.processed THEN h.processed + 1 ELSE h.processed,
     cancelled |-> \/ h.cancelled
                   \/ msgType = "Cancel" /\ h.announced > 0 /\ h.processed = 0]

CountedInit ==
    /\ now = 0
    /\ ct = NoContract
    /\ cf = NoFormation
    /\ assets = [a \in AssetIdx |-> NoAsset]
    /\ holdings = [a \in AssetIdx |-> [p \in Senders |-> ZeroHolding]]
    /\ responses = <<>>
    /\ committed = 0
    /\ recent = NoneRecent
    /\ pendingRequests = <<>>
    /\ unsafeRequests = <<>>
    /\ revertedTxs = <<>>
    /\ inSync = FALSE
    /\ applied = {}
    /\ seen = [t \in TxIds |-> NoHistory]
    /\ note = NoNote
    /\ ProcInit
    /\ arg = NoCall /\ result = NoCall

\* The node announces a tx (either version of HandleTx appends it)
CountedTx(txid) ==
    /\ Len(pendingRequests) < MaxQueue
    /\ seen[txid].announced < MaxAnnounced
    /\ Listen(HandleTx(ListenerState, txid))
    /\ note' = [type |-> "Tx", txid |-> txid, processed |-> FALSE]
    /\ seen' = [seen EXCEPT ![txid].announced = @ + 1]

\* The node reports a state of a tx and the listener ends in state r
CountedNotification(r, msgType, txid) ==
    /\ Len(r.unsafeRequests) <= MaxQueue
    /\ Len(r.revertedTxs) <= MaxQueue
    /\ r.processed => seen[txid].processed < MaxProcessed
    /\ Listen(r)
    /\ note' = [type |-> msgType, txid |-> txid, processed |-> r.processed]
    /\ seen' = [seen EXCEPT ![txid] = CountedAfter(@, r, msgType)]

\* ... to the listener of inspector txs
CountedTxState(msgType, txid) ==
    CountedNotification(HandleTxState(ListenerState, msgType, txid), msgType, txid)

\* ... to the listener of wire txs
CountedTxStateWire(msgType, txid) ==
    CountedNotification(HandleTxStateWire(ListenerState, msgType, txid), msgType, txid)

\* The node reports that it is in sync
CountedInSync ==
    /\ Listen(HandleInSync(ListenerState))
    /\ note' = [type |-> "InSync", txid |-> 0, processed |-> FALSE]
    /\ UNCHANGED seen

CountedNext ==
    \/ \E t \in TxIds : CountedTx(t)
    \/ \E t \in TxIds, msgType \in MsgTypes : CountedTxState(msgType, t)
    \/ CountedInSync

CountedWireNext ==
    \/ \E t \in TxIds : CountedTx(t)
    \/ \E t \in TxIds, msgType \in MsgTypes : CountedTxStateWire(msgType, t)
    \/ CountedInSync

CountedSpec == CountedInit /\ [][CountedNext]_vars
CountedWireSpec == CountedInit /\ [][CountedWireNext]_vars

\* ------------------------------------------------------------------- C33
\* C33: in the listener of inspector txs, a tx that HandleTx announced once
\* is passed to processTx at most once, whatever safe, confirm, unsafe, cancel
\* and revert notifications arrive for its tx id.
C33_ProcessedAtMostOnce ==
    \A t \in TxIds : seen[t].announced = 1 => seen[t].processed <= 1

\* A tx announced once was processed, and a later confirm notification for
\* it found nothing to process.
C33_ConfirmAfterProcessed ==
    /\ note.type = "Confirm" /\ ~note.processed
    /\ seen[note.txid].announced = 1
    /\ seen[note.txid].processed = 1
    /\ revertedTxs = <<>>

\* ------------------------------------------------------------------- C34
\* C34: in the listener of wire txs, a safe notification that processes a tx
\* announced once removes it from pendingRequests, and a later confirm
\* notification for that tx id does not pass the tx to processTx again.
C34_SafeRemovesPending ==
    [][(note'.type \in MsgTypes /\ seen[note'.txid].announced = 1) =>
          /\ (note'.type = "Safe" /\ note'.processed)
                => note'.txid \notin Range(pendingRequests')
          /\ (note'.type = "Confirm" /\ seen[note'.txid].processed > 0)
                => ~note'.processed]_vars

\* ------------------------------------------------------------------- C35
\* C35: in the listener of inspector txs, a tx announced once for which a
\* cancel notification arrives before it was processed is in neither
\* pendingRequests nor unsafeRequests after the cancel, and is not passed to
\* processTx afterwards.
C35_CancelledNeverProcessed ==
    [][(note'.type \in MsgTypes /\ seen[note'.txid].announced = 1) =>
          /\ (note'.type = "Cancel" /\ seen[note'.txid].processed = 0)
                => note'.txid \notin Range(pendingRequests') \cup Range(unsafeRequests')
          /\ seen[note'.txid].cancelled => ~note'.processed]_vars

\* ------------------------------------------------------------ applied votes
\* Amendments and modifications that name a vote result, with the commit of
\* their responses: FormationResponse and CreationResponse mark the vote of
\* the result applied.  Votes 1 and 2 are votes on the contract, vote 3 is a
\* vote on asset 0.
AppliedVotes ==
    {[found |-> TRUE, contract |-> ContractAddress, VoteTxId |-> id,
      CompletedAt |-> 1, Result |-> "A",
      ProposedAmendments |-> ProposedByResult(ref),
      AssetCode |-> IF id = 3 THEN {0} ELSE {}, Expires |-> 0,
      Type |-> 0, VoteSystem |-> 0, AppliedTxId |-> {}] :
        <<id, ref>> \in {<<1, "result1">>, <<2, "result2">>, <<3, "result3">>}}

\* vote.MarkApplied: the vote records the tx id of the amendment request
MarkApplied(vs, contract, voteTxId, txid) ==
    {IF v.contract = contract /\ v.VoteTxId = voteTxId
        THEN [v EXCEPT !.AppliedTxId = {txid}] ELSE v : v \in vs}

\* amendment.RefTxID of the request tx that the response msg answers; the
\* request tx is found through the first input of the response
RequestRefTxID(msg) == IF "RefTxID" \in DOMAIN msg THEN msg.RefTxID ELSE NoTx

\* Contract.FormationResponse with the vote of the request: the vote is
\* retrieved before the contract is created or updated and marked applied
\* after an update.
FormationResponseWithVote(c, vs, t, n, msg) ==
    LET ref == RequestRefTxID(msg)
        r == FormationResponse(c, t, msg) IN
    IF c.exists /\ c.MovedTo # NoAddr THEN [ct |-> c, votes |-> vs, out |-> "Error"]
    ELSE IF ref = NoTx THEN [ct |-> r.ct, votes |-> vs, out |-> r.out]
    ELSE IF ref \notin DOMAIN StoredTxs \/ StoredTxs[ref].MsgProto # "Result"
        THEN [ct |-> c, votes |-> vs, out |-> "Error"]
    ELSE IF ~RetrieveVote(vs, ContractAddress, StoredTxs[ref].VoteTxId).found
        THEN [ct |-> c, votes |-> vs, out |-> "Error"]
    ELSE [ct |-> r.ct,
          votes |-> IF r.out = "Done" /\ c.exists
                       THEN MarkApplied(vs, ContractAddress,
                                        StoredTxs[ref].VoteTxId, RequestTxId(n))
                       ELSE vs,
          out |-> r.out]

\* Asset.CreationResponse with the vote of the request: the vote is retrieved
\* before the asset is created or updated and marked applied after an update.
CreationResponseWithVote(c, as, hs, vs, t, n, msg) ==
    LET ref == IF msg.request = "Modification" THEN RequestRefTxID(msg) ELSE NoTx
        r == CreationResponse(c, as, hs, t, n, msg)
        same == [ct |-> c, assets |-> as, holdings |-> hs, votes |-> vs,
                 out |-> "Error"] IN
    IF ~c.exists \/ c.MovedTo # NoAddr THEN same
    ELSE IF ref = NoTx THEN [votes |-> vs] @@ r
    ELSE IF ref \notin DOMAIN StoredTxs \/ StoredTxs[ref].MsgProto # "Result"
        THEN same
    ELSE IF ~RetrieveVote(vs, ContractAddress, StoredTxs[ref].VoteTxId).found
        THEN same
    ELSE [votes |-> IF r.out = "Done" /\ as[msg.AssetCode].exists
                       THEN MarkApplied(vs, ContractAddress,
                                        StoredTxs[ref].VoteTxId, RequestTxId(n))
                       ELSE vs] @@ r

\* The asset the modifications are about is defined with no field that may
\* be amended without a vote; a proposal of the administration under voting
\* system 0 may amend the token quantity.
AppliedDefinition ==
    [kind |-> "Definition", RejectCode |-> "OK", sender |-> AdminAddr,
     TokenQty |-> 1, permitted |-> {},
     proposalPermitted |-> {<<"TokenQty", 0>>},
     VotingSystemsAllowed |-> [fld \in AssetFields |-> <<TRUE, FALSE>>],
     AssetType |-> "COU", MembershipClass |-> NoClass]

\* The modifications that name a tx as the result of a vote
AssetProposalMsgs ==
    {[kind |-> "Modification", RejectCode |-> "OK", sender |-> OperatorAddr,
      AssetCode |-> a, AssetRevision |-> r, RefTxID |-> ref, Amendments |-> am] :
        a \in AssetIdx, r \in 0 .. MaxRevision,
        ref \in {NoTx, "result", "offer", "result1", "result3"},
        am \in {<<>>, ProposedByResult("result3"),
                <<[field |-> "TokenQty", value |-> 1]>>}}

AppliedInit ==
    /\ now = 0
    /\ ct = NoContract
    /\ cf = NoFormation
    /\ assets = [a \in AssetIdx |-> NoAsset]
    /\ holdings = [a \in AssetIdx |-> [p \in Senders |-> ZeroHolding]]
    /\ responses = <<>>
    /\ committed = 0
    /\ recent = NoneRecent
    /\ ListenerInit
    /\ arg = NoCall /\ result = NoCall
    /\ store = [p \in Paths |-> NotFound]
    /\ mutex = FALSE
    /\ lock = Unlocked
    /\ pc = [g \in Goroutines |-> IdleCall]
    /\ KeyStore = {}
    /\ votes \in SUBSET AppliedVotes
    /\ transfers = {}
    /\ jobs = EmptyBag
    /\ emitted = <<>>
    /\ TxCache = EmptyMap

\* A ContractAmendment is handled; the formation that answers it spends the
\* request, so the response is kept with the RefTxID of its request.
AmendByProposal(m) ==
    LET r == AmendmentRequest(ct, cf, now, m) IN
    /\ r.out = "Success" => /\ Len(responses) < MaxResponses
                             /\ Len(responses) - committed < MaxInFlight
    /\ responses' = IF r.out = "Success"
                       THEN Append(responses, [RefTxID |-> m.RefTxID] @@ r.resp)
                       ELSE responses
    /\ cf' = IF r.out = "Success" THEN r.resp ELSE cf
    /\ recent' = NoneRecent
    /\ UNCHANGED <<now, ct, assets, holdings, committed>>
    /\ UNCHANGED <<listenerVars, callVars, procVars>>

\* An AssetModification is handled; the creation that answers it spends the
\* request, so the response is kept with the RefTxID of its request.
ModifyByProposal(m) ==
    LET h == AdminHolding(m)
        r == ModificationRequest(ct, assets, h, now, Len(responses) + 1, m) IN
    /\ r.out = "Success" => /\ Len(responses) < MaxResponses
                             /\ Len(responses) - committed < MaxInFlight
    /\ responses' = IF r.out = "Success"
                       THEN Append(responses, [RefTxID |-> m.RefTxID] @@ r.resp)
                       ELSE responses
    /\ holdings' = IF r.out = "Success"
                      THEN [holdings EXCEPT ![m.AssetCode][ct.AdminAddress] = r.holding]
                      ELSE holdings
    /\ recent' = NoneRecent
    /\ UNCHANGED <<now, ct, cf, assets, committed>>
    /\ UNCHANGED <<listenerVars, callVars, procVars>>

\* The next formation is seen and committed.
CommitFormation ==
    LET n == committed + 1 IN
    /\ committed < Len(responses)
    /\ responses[n].kind = "Formation"
    /\ LET r == FormationResponseWithVote(ct, votes, now, n, responses[n]) IN
         /\ ct' = r.ct
         /\ votes' = r.votes
    /\ committed' = n
    /\ recent' = [n |-> n, again |-> FALSE]
    /\ UNCHANGED <<now, cf, assets, holdings, responses, listenerVars, callVars>>
    /\ UNCHANGED <<store, mutex, KeyStore, lock, pc, transfers, jobs,
                   emitted, TxCache>>

\* The next creation is seen and committed.
CommitCreation ==
    LET n == committed + 1 IN
    /\ committed < Len(responses)
    /\ responses[n].kind = "Creation"
    /\ LET r == CreationResponseWithVote(ct, assets, holdings, votes, now, n,
                                         responses[n]) IN
         /\ ct' = r.ct
         /\ assets' = r.assets
         /\ holdings' = r.holdings
         /\ votes' = r.votes
    /\ committed' = n
    /\ recent' = [n |-> n, again |-> FALSE]
    /\ UNCHANGED <<now, cf, responses, listenerVars, callVars>>
    /\ UNCHANGED <<store, mutex, KeyStore, lock, pc, transfers, jobs,
                   emitted, TxCache>>

AppliedNext ==
    \/ Tick
    \/ OfferMember
    \/ \E m \in ProposalMsgs : AmendByProposal(m)
    \/ HandleDefinition(AppliedDefinition)
    \/ \E m \in AssetProposalMsgs : ModifyByProposal(m)
    \/ CommitFormation
    \/ CommitCreation

AppliedSpec == AppliedInit /\ [][AppliedNext]_vars

\* The vote of the result that request m names has been marked applied
VoteApplied(m) ==
    /\ m.RefTxID \in DOMAIN StoredTxs
    /\ StoredTxs[m.RefTxID].MsgProto = "Result"
    /\ \E v \in votes :
          /\ v.contract = ContractAddress
          /\ v.VoteTxId = StoredTxs[m.RefTxID].VoteTxId
          /\ v.AppliedTxId # {}

\* ------------------------------------------------------------------- C36
\* C36: once the commit of a formation or of a creation has marked a vote
\* applied, every later ContractAmendment or AssetModification that names the
\* Result tx of that vote is rejected.
C36_AppliedVoteRejected ==
    /\ \A m \in ProposalMsgs :
          (ct.exists /\ VoteApplied(m)) => AmendmentAnswer(m).out # "Success"
    /\ \A m \in AssetProposalMsgs :
          (ct.exists /\ VoteApplied(m)) => ModificationAnswer(m).out # "Success"

\* ------------------------------------------------------------------- C37
\* C37: no two AssetCreation responses that answer different AssetDefinition
\* requests of the contract carry the same AssetCode (or AssetIndex),
\* whatever the order of request handling and response commits.
C37_DistinctAssetCodes ==
    \A i, j \in DOMAIN responses :
        (/\ i # j
         /\ responses[i].kind = "Creation" /\ responses[i].request = "Definition"
         /\ responses[j].kind = "Creation" /\ responses[j].request = "Definition")
            => /\ responses[i].AssetCode # responses[j].AssetCode
               /\ responses[i].AssetIndex # responses[j].AssetIndex

\* ------------------------------------------- TxRepository, reads and writes
\* The methods that hold the mutex for their whole body, with the read of the
\* block file and its write as separate steps; the data is bytes.
HashSize == 32

\* txid[:], the bytes of a tx id
TxIdBytes(txid) == [i \in 1 .. HashSize |-> txid]

\* The bytes of the ids of a list, as writeBlock lays them out
RECURSIVE BlockBytes(_)
BlockBytes(txids) ==
    IF txids = <<>> THEN <<>> ELSE TxIdBytes(Head(txids)) \o BlockBytes(Tail(txids))

\* data[i:i+HashSize] for the offsets the loops of Add and Contains visit
Chunks(data) ==
    {SubSeq(data, i + 1, i + HashSize) :
        i \in {k \in 0 .. Len(data) - 1 : k % HashSize = 0}}

\* repo.mutex.Lock() returns at once for every caller
LockReturnsAlways(mtx) == TRUE

\* repo.mutex.Lock() returns when the mutex is not locked
LockReturns(mtx) == ~mtx

\* What Add writes and returns after it read r from the path
AddWrite(r, txid) ==
    IF ~r.found THEN [ret |-> TRUE, write |-> TRUE, data |-> TxIdBytes(txid)]
    ELSE IF TxIdBytes(txid) \in Chunks(r.data)
       THEN [ret |-> FALSE, write |-> FALSE, data |-> r.data]
    ELSE [ret |-> TRUE, write |-> TRUE, data |-> r.data \o TxIdBytes(txid)]

MutexOps == {"Add", "Contains", "SetBlock", "ClearBlock"}

MutexCalls ==
    {c \in [op : MutexOps, txid : RepoTxIds, txids : RepoTxLists, height : Heights] :
        /\ c.op \notin {"Add", "Contains"} => c.txid = 1
        /\ c.op # "SetBlock" => c.txids = <<>>}

\* Goroutine g calls a method and reaches its repo.mutex.Lock()
CallMutexOp(g, c) ==
    /\ pc[g].at = "idle"
    /\ pc' = [pc EXCEPT ![g] =
                [op |-> c.op, at |-> "Lock", holds |-> FALSE, txid |-> c.txid,
                 txids |-> c.txids, height |-> c.height]]
    /\ UNCHANGED <<store, mutex>>
    /\ UNCHANGED <<agentVars, listenerVars, callVars>>
    /\ UNCHANGED <<KeyStore, lock, votes, transfers, jobs, emitted, TxCache>>

\* repo.mutex.Lock() of goroutine g returns
LockMutex(g) ==
    /\ pc[g].at = "Lock"
    /\ LockReturns(mutex)
    /\ mutex' = TRUE
    /\ pc' = [pc EXCEPT ![g].at = IF pc[g].op \in {"Add", "Contains"}
                                     THEN "Read" ELSE "Write"]
    /\ UNCHANGED store
    /\ UNCHANGED <<agentVars, listenerVars, callVars>>
    /\ UNCHANGED <<KeyStore, lock, votes, transfers, jobs, emitted, TxCache>>

\* repo.store.Read of Add and Contains.  Contains answers from what it read
\* and returns; Add returns false when it found the tx id.  Returning unlocks
\* the mutex (defer repo.mutex.Unlock()).
ReadBlock(g) ==
    LET c == pc[g]
        r == store[buildPath(c.height)]
        w == AddWrite(r, c.txid) IN
    /\ c.at = "Read"
    /\ IF c.op = "Add" /\ w.write
          THEN /\ pc' = [pc EXCEPT ![g] =
                           [op |-> c.op, at |-> "Write", holds |-> FALSE,
                            txid |-> c.txid, txids |-> c.txids,
                            height |-> c.height, read |-> r]]
               /\ UNCHANGED mutex
          ELSE /\ pc' = [pc EXCEPT ![g] =
                           [op |-> c.op, at |-> "idle", holds |-> FALSE,
                            txid |-> c.txid, height |-> c.height,
                            ret |-> IF c.op = "Add" THEN w.ret
                                    ELSE r.found /\ TxIdBytes(c.txid) \in Chunks(r.data)]]
               /\ mutex' = FALSE
    /\ UNCHANGED store
    /\ UNCHANGED <<agentVars, listenerVars, callVars>>
    /\ UNCHANGED <<KeyStore, lock, votes, transfers, jobs, emitted, TxCache>>

\* repo.store.Write or Remove of Add, SetBlock and ClearBlock, and the return
WriteBlock(g) ==
    LET c == pc[g]
        path == buildPath(c.height) IN
    /\ c.at = "Write"
    /\ store' = [store EXCEPT ![path] =
                    CASE c.op = "Add" -> Block(AddWrite(c.read, c.txid).data)
                      [] c.op = "SetBlock" /\ Len(c.txids) > 0
                            -> Block(BlockBytes(c.txids))
                      [] OTHER -> NotFound]
    /\ mutex' = FALSE
    /\ pc' = [pc EXCEPT ![g] =
                [op |-> c.op, at |-> "idle", holds |-> FALSE, txid |-> c.txid,
                 height |-> c.height, ret |-> TRUE]]
    /\ UNCHANGED <<agentVars, listenerVars, callVars>>
    /\ UNCHANGED <<KeyStore, lock, votes, transfers, jobs, emitted, TxCache>>

MutexNext ==
    \/ \E g \in Goroutines, c \in MutexCalls : CallMutexOp(g, c)
    \/ \E g \in Goroutines : LockMutex(g)
    \/ \E g \in Goroutines : ReadBlock(g)
    \/ \E g \in Goroutines : WriteBlock(g)

MutexSpec == Init /\ [][MutexNext]_vars

\* The ids stored in a block file
StoredChunks(st, path) == IF st[path].found THEN Chunks(st[path].data) ELSE {}

\* ------------------------------------------------------------------- C38
\* C38: every stored block is a whole number of 32-byte ids, and an Add that
\* returns true for a height leaves every id that was stored for the height
\* in place and has stored its own, however the calls of the goroutines
\* interleave: two Adds of different tx ids for one height both end stored.
C38_NoLostAdd ==
    [][/\ \A p \in Paths :
            store'[p].found => Len(store'[p].data) % HashSize = 0
       /\ \A g \in Goroutines :
            (pc[g].at = "Write" /\ pc[g].op = "Add" /\ pc'[g].at = "idle")
               => LET path == buildPath(pc[g].height) IN
                  StoredChunks(store', path)
                     = StoredChunks(store, path) \cup {TxIdBytes(pc[g].txid)}]_vars

\* Two goroutines added different tx ids for one height, each Add returned
\* true, and the block of the height holds both.
C38_BothAdded ==
    /\ pc[1].at = "idle" /\ pc[1].op = "Add" /\ pc[1].ret
    /\ pc[2].at = "idle" /\ pc[2].op = "Add" /\ pc[2].ret
    /\ pc[1].height = pc[2].height /\ pc[1].txid # pc[2].txid
    /\ StoredChunks(store, buildPath(pc[1].height))
          = {TxIdBytes(pc[1].txid), TxIdBytes(pc[2].txid)}
    /\ Len(store[buildPath(pc[1].height)].data) = 2 * HashSize

\* ------------------------------------------------------------ bitcoin script
\* PushDataScript / ParsePushDataScript and PushNumberScript /
\* ParsePushNumberScript.  A script is a sequence of bytes.
OP_FALSE == 0
OP_MAX_SINGLE_BYTE_PUSH_DATA == 75
OP_PUSH_DATA_1 == 76
OP_PUSH_DATA_2 == 77
OP_PUSH_DATA_4 == 78
OP_PUSH_DATA_1_MAX == 255
OP_PUSH_DATA_2_MAX == 65535

MaxSmallSize == 300   \* sizes 0 .. MaxSmallSize are all tried
MaxNumber == 300      \* numbers -MaxNumber .. MaxNumber are all tried

\* binary.Write(&buf, endian, value) of an unsigned value of n bytes
RECURSIVE LittleEndian(_, _)
LittleEndian(value, n) ==
    IF n = 0 THEN <<>> ELSE <<value % 256>> \o LittleEndian(value \div 256, n - 1)

\* The unsigned value of little endian bytes
RECURSIVE FromLittleEndian(_)
FromLittleEndian(b) ==
    IF b = <<>> THEN 0 ELSE Head(b) + 256 * FromLittleEndian(Tail(b))

PushDataScript(size) ==
    IF size <= OP_MAX_SINGLE_BYTE_PUSH_DATA THEN <<size>>
    ELSE IF size < OP_PUSH_DATA_1_MAX THEN <<OP_PUSH_DATA_1, size % 256>>
    ELSE IF size < OP_PUSH_DATA_2_MAX
        THEN <<OP_PUSH_DATA_2>> \o LittleEndian(size % 65536, 2)
    ELSE <<OP_PUSH_DATA_4>> \o LittleEndian(size, 4)

DataSize(size) == [err |-> FALSE, size |-> size]
DataError == [err |-> TRUE, size |-> 0]

\* binary.Read of n bytes after the opcode
ReadSize(buf, n) ==
    IF Len(buf) < 1 + n THEN DataError
    ELSE DataSize(FromLittleEndian(SubSeq(buf, 2, 1 + n)))

ParsePushDataScript(buf) ==
    IF buf = <<>> THEN DataError
    ELSE IF buf[1] <= OP_MAX_SINGLE_BYTE_PUSH_DATA THEN DataSize(buf[1])
    ELSE IF buf[1] = OP_PUSH_DATA_1 THEN ReadSize(buf, 1)
    ELSE IF buf[1] = OP_PUSH_DATA_2 THEN ReadSize(buf, 2)
    ELSE IF buf[1] = OP_PUSH_DATA_4 THEN ReadSize(buf, 4)
    ELSE DataError

\* The little endian bytes of n > 0, without leading zero bytes
RECURSIVE NumberBytes(_)
NumberBytes(n) ==
    IF n > 0 THEN <<n % 256>> \o NumberBytes(n \div 256) ELSE <<>>

PushNumberScript(n) ==
    IF n = 0 THEN <<0>>
    ELSE IF n = -1 THEN <<79>>
    ELSE IF n > 0 /\ n <= 16 THEN <<80 + n>>
    ELSE LET isNegative == n < 0
             magnitude == NumberBytes(IF isNegative THEN -n ELSE n)
             last == magnitude[Len(magnitude)]
             signed ==
                 IF last >= 128
                    THEN Append(magnitude, IF isNegative THEN 128 ELSE 0)
                 ELSE IF isNegative
                    THEN [magnitude EXCEPT ![Len(magnitude)] = last + 128]
                 ELSE magnitude
         IN <<Len(signed)>> \o signed

Number(value, used) == [err |-> FALSE, value |-> value, used |-> used]
NumberError == [err |-> TRUE, value |-> 0, used |-> 0]

\* ParsePushNumberScript: after the length byte b is the rest of the script,
\* all of which is decoded; indexing the last byte of an empty rest panics
\* and counts as an error here.
ParsePushNumberScript(b) ==
    IF b = <<>> THEN NumberError
    ELSE IF b[1] = OP_FALSE THEN Number(0, 1)
    ELSE IF b[1] = 79 THEN Number(-1, 1)
    ELSE IF b[1] >= 81 /\ b[1] <= 96 THEN Number(b[1] - 80, 1)
    ELSE IF b[1] > 10 THEN NumberError
    ELSE LET length == b[1]
             data == Tail(b)
             unsigned == FromLittleEndian(data) IN
         IF data = <<>> THEN NumberError
         ELSE IF data[Len(data)] >= 128
            THEN Number(-(unsigned - 128 * 256 ^ (Len(data) - 1)), length)
            ELSE Number(unsigned, length)

\* The sizes tried: the small ones and those around the limits of the opcodes
PushSizes ==
    (0 .. MaxSmallSize) \cup {65534, 65535, 65536, 65537, 16777216, 2147483647}

\* The script bytes that follow a number push: none, OP_DROP-like 0x05, or
\* OP_CHECKSIG (0xac)
ScriptRests == {<<>>, <<5>>, <<172>>}

ScriptInit ==
    /\ now = 0
    /\ ct = NoContract
    /\ cf = NoFormation
    /\ assets = [a \in AssetIdx |-> NoAsset]
    /\ holdings = [a \in AssetIdx |-> [p \in Senders |-> ZeroHolding]]
    /\ responses = <<>>
    /\ committed = 0
    /\ recent = NoneRecent
    /\ ListenerInit
    /\ ProcInit
    /\ arg \in [fn : {"PushDataScript"}, size : PushSizes]
               \cup [fn : {"PushNumberScript"}, n : -MaxNumber .. MaxNumber,
                     rest : ScriptRests]
    /\ result = NoCall

\* The size is encoded and the script is parsed
CallPushData ==
    /\ result = NoCall
    /\ arg.fn = "PushDataScript"
    /\ result' = [fn |-> "PushDataScript", script |-> PushDataScript(arg.size),
                  parsed |-> ParsePushDataScript(PushDataScript(arg.size))]
    /\ UNCHANGED <<agentVars, listenerVars, arg, procVars>>

\* The number is encoded and the script that starts with it is parsed
CallPushNumber ==
    /\ result = NoCall
    /\ arg.fn = "PushNumberScript"
    /\ result' = [fn |-> "PushNumberScript", script |-> PushNumberScript(arg.n),
                  parsed |-> ParsePushNumberScript(PushNumberScript(arg.n) \o arg.rest)]
    /\ UNCHANGED <<agentVars, listenerVars, arg, procVars>>

ScriptNext == CallPushData \/ CallPushNumber

ScriptSpec == ScriptInit /\ [][ScriptNext]_vars

\* ------------------------------------------------------------------- C39
\* C39: ParsePushDataScript(PushDataScript(n)) = n, and PushDataScript uses
\* a single length byte for n <= 0x4b, OP_PUSHDATA1 for larger n up to
\* OP_PUSH_DATA_1_MAX, OP_PUSHDATA2 for larger n up to OP_PUSH_DATA_2_MAX and
\* OP_PUSHDATA4 above.
C39_PushDataByLimits ==
    result.fn = "PushDataScript" =>
        /\ result.parsed = DataSize(arg.size)
        /\ result.script[1] =
              (IF arg.size <= OP_MAX_SINGLE_BYTE_PUSH_DATA THEN arg.size
               ELSE IF arg.size <= OP_PUSH_DATA_1_MAX THEN OP_PUSH_DATA_1
               ELSE IF arg.size <= OP_PUSH_DATA_2_MAX THEN OP_PUSH_DATA_2
               ELSE OP_PUSH_DATA_4)
        /\ Len(result.script) =
              (IF arg.size <= OP_MAX_SINGLE_BYTE_PUSH_DATA THEN 1
               ELSE IF arg.size <= OP_PUSH_DATA_1_MAX THEN 2
               ELSE IF arg.size <= OP_PUSH_DATA_2_MAX THEN 3
               ELSE 5)

\* ------------------------------------------------------------------- C40
\* C40: ParsePushNumberScript of a script that begins with PushNumberScript(n)
\* returns n and the number of bytes of the number push, also when further
\* script bytes follow.
C40_PushNumberRoundTrip ==
    result.fn = "PushNumberScript" =>
        result.parsed = Number(arg.n, Len(PushNumberScript(arg.n)))

====
